---- MODULE Spec2Model ----
(***************************************************************************)
(* Verification model of diskfs (thunze/diskfs): the FAT file-system       *)
(* engine (Fat table, cluster streams, directory entries, the cached       *)
(* Node tree with its file-descriptor table) and its locking protocol.     *)
(*                                                                         *)
(* Scale of the model.  One directory slot (ENTRY_SIZE = 32 bytes) is one  *)
(* cell; file data is counted in cells as well.  A cluster holds           *)
(* ClusterCells cells.  Timestamps are the value of the clock `now`.       *)
(***************************************************************************)
EXTENDS Integers, Sequences, FiniteSets, TLC

\* a local name: Bind(v, LAMBDA x : e) is e with x standing for the value v
Bind(v, F(_)) == F(v)

\* Python's None, one value per type it stands in for
NoEntry == [name |-> "None"]            \* an Entry that is None
NoNode == [entry |-> NoEntry]           \* a Node that is None
NotParsed == <<[entry |-> NoEntry]>>    \* Node.children is None
NoIdx == <<0>>                          \* the address of no node

(***************************************************************************)
(* Bounds of the model.                                                    *)
(***************************************************************************)
ClusterCells == 2          \* cells per cluster (and per logical sector)
RootSectors == 3           \* sectors of the FAT12/16 root directory region
MaxDepth == 2              \* longest path, in parts
MaxFds == 2                \* rows of the fd table
MaxTime == 1               \* the clock runs 0..MaxTime
MaxSteps == 3              \* public calls per behaviour
NThreads == 2              \* threads that call into one FileSystem
MaxCalls == 4              \* calls the threads begin in one behaviour
SectorBytes == 8           \* bytes of a logical sector of the FAT volume
ReservedSectors == 1       \* sectors before the FAT region
FatSectors == 2            \* BootSector.fat_size: sectors of one FAT
FatCopies == 2             \* FATs in the FAT region
TailSectors == 1           \* sectors of the volume behind the FAT region
MaxFatCalls == 3           \* calls on the Fat in one behaviour
LowClusters == 5           \* data clusters of the small volume
HighClusters == 3          \* usable data clusters of the large volume

(***************************************************************************)
(* Program constants.                                                      *)
(***************************************************************************)
CLUSTER_EMPTY == 0
CLUSTER_RESERVED == 1
BAD_CLUSTER_12 == 4087         \* 0xFF7
CLUSTER_EOC_12 == 4095         \* 0xFFF
CLUSTER_AVOID_DATA_12 == 4080  \* 0xFF0
FIRST_FD == 3
LOW_BYTE_SPAN == 256           \* values that "& 0xFF" keeps apart
MEDIA_TYPE == 248              \* 0xF8, the BPB media descriptor
CLUSTER_EOC_16 == 65535        \* 0xFFFF
CLUSTER_EOC_32 == 268435455    \* 0x0FFFFFFF

(***************************************************************************)
(* File names.  "LongName" needs a VFAT long-file-name chain; its 8.3     *)
(* alias is a tilde name.  The other names are valid 8.3 names.  Names    *)
(* are kept in the case entry_match compares them in (upper case), so     *)
(* case-insensitive PurePath equality is plain equality here.             *)
(***************************************************************************)
LongNames == {"LongName"}
Parts == {"A", "LongName", "LONGNA~1"}

Tilde(i) == IF i = 1 THEN "LONGNA~1" ELSE IF i = 2 THEN "LONGNA~2"
            ELSE IF i = 3 THEN "LONGNA~3" ELSE "LONGNA~4"

\* _vfat_to_dos_filename: the first tilde variant not among the DOS names
\* already present in the directory (range(1, 5)).
VfatToDosFilename(filename, existing) ==
  IF filename \notin LongNames THEN filename
  ELSE IF Tilde(1) \notin existing THEN Tilde(1)
  ELSE IF Tilde(2) \notin existing THEN Tilde(2)
  ELSE IF Tilde(3) \notin existing THEN Tilde(3)
  ELSE Tilde(4)

(***************************************************************************)
(* Directory cells and generalized entries.                                *)
(***************************************************************************)
ZeroCell == [k |-> "z"]                   \* 32 zero bytes / a zero data cell
DelCell == [k |-> "del"]                  \* slot whose first byte is 0xE5
DataCell(v) == [k |-> "b", v |-> v]       \* file data
VfatCell(name, dos) == [k |-> "lfn", name |-> name, sum |-> dos]
EdtCell(e) == [k |-> "edt", dos |-> e.dos, dir |-> e.dir, lo |-> e.lo,
               hi |-> e.hi, size |-> e.size, stamp |-> e.stamp]

\* Entry: one 8.3 entry plus the VFAT entries of its long name, if any.
MkEntry(name, dos, lfn, dir, lo, hi, size, stamp) ==
  [name |-> name, dos |-> dos, lfn |-> lfn, dir |-> dir, lo |-> lo, hi |-> hi,
   size |-> size, stamp |-> stamp]

\* a long name that does not fit one VFAT entry, and its 8.3 alias
VeryLongNames == {"VeryLongName"}
VeryLongAlias == "VERYLO~1"
\* the VFAT entries a long name takes: one for 13 characters
LfnEntries(name) == IF name \in VeryLongNames THEN 2 ELSE 1

\* Entry.total_entries
TotalEntries(e) == IF e.lfn THEN LfnEntries(e.name) + 1 ELSE 1

\* Entry.__bytes__: VFAT entries in physical order, then the 8.3 entry.
EntryBytes(e) ==
  IF e.lfn
    THEN [i \in 1..LfnEntries(e.name) |-> VfatCell(e.name, e.dos)] \o <<EdtCell(e)>>
    ELSE <<EdtCell(e)>>

\* EightDotThreeEntry.cluster
EntryCluster(e, fat_32) == IF fat_32 THEN e.hi * 65536 + e.lo ELSE e.lo

\* entry_match: the long name, or (VFAT enabled) the DOS name.
EntryMatch(part, e) == part = e.name \/ part = e.dos

(***************************************************************************)
(* Fat: the table as an array of entries 0 .. total_clusters + 1.          *)
(* The file-system model uses FAT12 sentinels (total_clusters < 4085).     *)
(***************************************************************************)
FatLen(f) == Cardinality(DOMAIN f)            \* Fat.__len__ (self._entries)

\* Fat.get_chain, collected into a list as DataIO.__init__ does.  The
\* generator raises ValueError on a link outside the table; a cyclic chain
\* never ends ("hang").
RECURSIVE ChainFrom(_, _, _)
ChainFrom(f, cluster, fuel) ==
  IF ~(CLUSTER_RESERVED < cluster /\ cluster <= BAD_CLUSTER_12)
    THEN [st |-> "ok", chain |-> <<>>]
  ELSE IF ~(2 <= cluster /\ cluster <= FatLen(f) - 1)
    THEN [st |-> "ValueError", chain |-> <<>>]
  ELSE IF fuel = 0 THEN [st |-> "hang", chain |-> <<>>]
  ELSE Bind(ChainFrom(f, f[cluster], fuel - 1), LAMBDA r :
         [st |-> r.st, chain |-> <<cluster>> \o r.chain])

get_chain(f, start_cluster) == ChainFrom(f, start_cluster, FatLen(f))

RECURSIVE Smallest(_, _)
\* the n smallest members of a set of keys, ascending
Smallest(keys, n) ==
  IF n = 0 \/ keys = {} THEN <<>>
  ELSE LET m == CHOOSE x \in keys : \A y \in keys : x <= y
       IN  <<m>> \o Smallest(keys \ {m}, n - 1)

\* Fat.next_free_clusters, collected into a tuple as DataIO._allocate does:
\* enumerate(iter(self)) from key 0 yields the empty keys below the
\* avoid-data sentinel; the generator returns only when it looks at a
\* further key after the count-th empty one, and raises when the table
\* ends first.
next_free_clusters(f, count) ==
  Bind(Smallest({k \in DOMAIN f : k < CLUSTER_AVOID_DATA_12 /\ f[k] = CLUSTER_EMPTY},
                count), LAMBDA found :
    IF Len(found) = count /\ (count = 0 \/ found[count] + 1 \in DOMAIN f)
      THEN [st |-> "ok", clusters |-> found]
      ELSE [st |-> "FileSystemLimit", clusters |-> found])

\* Fat.free_clusters
free_clusters(f) == Cardinality({k \in DOMAIN f : f[k] = CLUSTER_EMPTY})

(***************************************************************************)
(* The world a call works on: W = [fat, dirty, data, root, cache, now,      *)
(* log]: the Fat (with its buffer's altered flag), the data region, the    *)
(* root directory region, the cached Node tree, the clock, and log, which  *)
(* records, in program order, the events of the current public call:       *)
(*   "fat"   Fat.__setitem__ altered the buffer                            *)
(*   "flush" Fat.flush wrote the altered buffer to every FAT copy          *)
(*   "data"  a data-region cluster was written (Volume.write_at)           *)
(*   "root"  a root-directory sector was written                           *)
(*   "entry" the cached entry of a Node of the tree was replaced           *)
(*   "list"  a children list of the tree lost or gained a Node             *)
(***************************************************************************)
Log(W, ev) == [W EXCEPT !.log = Append(@, ev)]

\* Fat.__setitem__ on the buffer; Fat.flush writes it out when altered.
FatSet(W, key, value) ==
  [W EXCEPT !.fat = [@ EXCEPT ![key] = value], !.log = Append(@, "fat"),
            !.dirty = TRUE]
\* a flush that writes nothing
FatFlush_none(W) == W
FatFlush(W) ==
  IF W.dirty THEN [W EXCEPT !.log = Append(@, "flush"), !.dirty = FALSE] ELSE W

RECURSIVE FatSetLinks(_, _, _)
\* "build cluster chain": fat[last] = cluster for each further new cluster
FatSetLinks(W, last, rest) ==
  IF rest = <<>> THEN W
  ELSE FatSetLinks(FatSet(W, last, Head(rest)), Head(rest), Tail(rest))

\* a _free that leaves the freed clusters marked in the table
FatSetEmpty_kept(W, clusters) == W

RECURSIVE FatSetEmpty(_, _)
FatSetEmpty(W, clusters) ==
  IF clusters = <<>> THEN W
  ELSE FatSetEmpty(FatSet(W, Head(clusters), CLUSTER_EMPTY), Tail(clusters))

(***************************************************************************)
(* Streams: S = [kind, chain, size, pos, lw].  kind "data" is DataIO (unit *)
(* = cluster), kind "root" is RootdirIO (unit = logical sector); lw is     *)
(* last_write (-1, for None, until the stream has written a unit).                  *)
(***************************************************************************)
ZeroUnit == [i \in 1..ClusterCells |-> ZeroCell]
RootSize == RootSectors * ClusterCells

\* DataIO.__init__ for a directory or file entry (entry # None)
DataIOInit(W, e) ==
  Bind(get_chain(W.fat, EntryCluster(e, FALSE)), LAMBDA c :
    [st |-> c.st,
     S |-> [kind |-> "data", chain |-> c.chain, pos |-> 0, lw |-> -1,
            size |-> IF e.dir THEN Len(c.chain) * ClusterCells ELSE e.size]])

\* RootdirIO.__init__
RootdirIOInit ==
  [st |-> "ok",
   S |-> [kind |-> "root", chain |-> <<>>, pos |-> 0, lw |-> -1,
          size |-> RootSize]]

\* FileSystem._get_internal_io (FAT12/16: the root is the root region)
GetInternalIO(W, e) == IF e = NoEntry THEN RootdirIOInit ELSE DataIOInit(W, e)

\* DataIO._check_cluster
CheckCluster(W, cluster) == 0 <= cluster - 2 /\ cluster - 2 < FatLen(W.fat) - 2

\* _read_units(pos, 1): one unit, or an error status
ReadUnit(W, S, u) ==
  IF S.kind = "root"
    THEN IF u < RootSectors
           THEN [st |-> "ok",
                 b |-> SubSeq(W.root, u * ClusterCells + 1, (u + 1) * ClusterCells)]
         ELSE IF (u - RootSectors + 2) \in DOMAIN W.data
           THEN [st |-> "ok", b |-> W.data[u - RootSectors + 2]]
         ELSE [st |-> "ValueError", b |-> <<>>]
  ELSE IF u + 1 > Len(S.chain) \/ ~CheckCluster(W, S.chain[u + 1])
    THEN [st |-> "ValueError", b |-> <<>>]
  ELSE [st |-> "ok", b |-> W.data[S.chain[u + 1]]]

\* one unit of _write_units
WriteUnit(W, S, u, cells) ==
  IF S.kind = "root"
    THEN IF u < RootSectors
           THEN [W EXCEPT !.root = [i \in 1..Len(@) |->
                                      IF i > u * ClusterCells /\ i <= (u + 1) * ClusterCells
                                        THEN cells[i - u * ClusterCells] ELSE @[i]],
                          !.log = Append(@, "root")]
         ELSE [W EXCEPT !.data[u - RootSectors + 2] = cells,
                        !.log = Append(@, "data")]
  ELSE [W EXCEPT !.data[S.chain[u + 1]] = cells, !.log = Append(@, "data")]

RECURSIVE WriteUnitsFrom(_, _, _, _)
WriteUnitsFrom(W, S, u, b) ==
  IF b = <<>> THEN W
  ELSE WriteUnitsFrom(WriteUnit(W, S, u, SubSeq(b, 1, ClusterCells)), S, u + 1,
                      SubSeq(b, ClusterCells + 1, Len(b)))

\* _write_units(pos, b)
WriteUnits(W, S, u, b, t) ==
  LET count == Len(b) \div ClusterCells IN
  IF S.kind = "data" /\ Len(b) % ClusterCells # 0
    THEN [st |-> "ValueError", W |-> W, S |-> S]
  ELSE IF S.kind = "data" /\ count <= 0 THEN [st |-> "ok", W |-> W, S |-> S]
  ELSE IF S.kind = "data" /\ u + count > Len(S.chain)
    THEN [st |-> "ValueError", W |-> W, S |-> S]
  ELSE IF S.kind = "data" /\ \E i \in u + 1 .. u + count : ~CheckCluster(W, S.chain[i])
    THEN [st |-> "ValueError", W |-> W, S |-> S]
  ELSE IF S.kind = "root" /\ (Len(b) % ClusterCells # 0
                             \/ \E i \in u .. u + count - 1 :
                                  i >= RootSectors /\ (i - RootSectors + 2) \notin DOMAIN W.data)
    THEN [st |-> "ValueError", W |-> W, S |-> S]
  ELSE [st |-> "ok", W |-> WriteUnitsFrom(W, S, u, b),
        S |-> IF S.kind = "data" THEN [S EXCEPT !.lw = t] ELSE S]

\* an _allocate that leaves the new clusters as it finds them
ZeroFill_none(W, S, from, to) == W

RECURSIVE ZeroFill(_, _, _, _)
\* for cluster_index in range(old_chain_len, clusters_required)
ZeroFill(W, S, from, to) ==
  IF from >= to THEN W
  ELSE ZeroFill(WriteUnit(W, S, from, ZeroUnit), S, from + 1, to)

\* DataIO._allocate / RootdirIO._allocate
Allocate(W, S, min_size, t) ==
  IF S.kind = "root"
    THEN [st |-> IF min_size > S.size THEN "FileSystemLimit" ELSE "ok",
          W |-> W, S |-> S]
  ELSE IF min_size <= S.size THEN [st |-> "ok", W |-> W, S |-> S]
  ELSE
    LET clusters_required == (min_size - 1) \div ClusterCells + 1
        to_allocate == clusters_required - Len(S.chain)
    IN
    IF to_allocate <= 0
      THEN [st |-> "ok", W |-> W, S |-> [S EXCEPT !.size = min_size]]
    ELSE
      Bind(next_free_clusters(W.fat, to_allocate), LAMBDA nf :
      IF nf.st # "ok" THEN [st |-> nf.st, W |-> W, S |-> S]
      ELSE
        Bind(nf.clusters, LAMBDA new_clusters :
        Bind([S EXCEPT !.chain = @ \o new_clusters], LAMBDA S1 :
        LET W1 == IF Len(S.chain) > 0
                    THEN FatSet(W, S.chain[Len(S.chain)], new_clusters[1])
                    ELSE W
            W2 == FatSetLinks(W1, new_clusters[1], Tail(new_clusters))
            W3 == FatSet(W2, new_clusters[Len(new_clusters)], CLUSTER_EOC_12)
            W4 == FatFlush(W3)
            W5 == ZeroFill(W4, S1, Len(S.chain), clusters_required)
        IN  [st |-> "ok", W |-> W5,
             S |-> [S1 EXCEPT !.size = min_size, !.lw = t]])))

\* DataIO._free / RootdirIO._free
Free(W, S, max_size) ==
  IF S.kind = "root" THEN [st |-> "ValueError", W |-> W, S |-> S]
  ELSE IF max_size >= S.size THEN [st |-> "ok", W |-> W, S |-> S]
  ELSE
    LET clusters_required == (max_size - 1) \div ClusterCells + 1
        to_free == Len(S.chain) - clusters_required
    IN
    IF to_free <= 0
      THEN [st |-> "ok", W |-> W, S |-> [S EXCEPT !.size = max_size]]
    ELSE
      Bind(SubSeq(S.chain, 1, Len(S.chain) - to_free), LAMBDA new_chain :
      LET old_clusters == SubSeq(S.chain, Len(S.chain) - to_free + 1, Len(S.chain))
          W1 == IF Len(new_chain) > 0
                  THEN FatSet(W, new_chain[Len(new_chain)], CLUSTER_EOC_12)
                  ELSE W
          W2 == FatSetEmpty(W1, old_clusters)
          W3 == FatFlush(W2)
      IN  [st |-> "ok", W |-> W3,
           S |-> [S EXCEPT !.chain = new_chain, !.size = max_size]])

\* a truncate that only grows
Truncate_grow_only(W, S, size, t) ==
  IF size > S.size THEN Allocate(W, S, size, t)
  ELSE [st |-> "ok", W |-> W, S |-> S]

\* _InternalIO.truncate(size)
Truncate(W, S, size, t) ==
  IF size > S.size THEN Allocate(W, S, size, t)
  ELSE IF size < S.size THEN Free(W, S, size)
  ELSE [st |-> "ok", W |-> W, S |-> S]

\* _InternalIO.write(b) at the stream position
Write(W, S, b, t) ==
  LET size == Len(b)
      stop == S.pos + size
  IN
  IF size = 0 THEN [st |-> "ok", W |-> W, S |-> S]
  ELSE
    Bind(Allocate(W, S, stop, t), LAMBDA a :
    IF a.st # "ok" THEN a
    ELSE
      LET start_unit == S.pos \div ClusterCells
          stop_unit == (stop - 1) \div ClusterCells + 1
          units == stop_unit - start_unit
          b_start == S.pos % ClusterCells
          keep_last_unit == (b_start + size) % ClusterCells
          aligned == b_start = 0 /\ size % ClusterCells = 0
      IN
      Bind(ReadUnit(a.W, a.S, start_unit), LAMBDA first_unit :
      Bind(ReadUnit(a.W, a.S, stop_unit - 1), LAMBDA last_unit :
      IF ~aligned /\ (first_unit.st # "ok" \/ (units > 1 /\ last_unit.st # "ok"))
        THEN [st |-> "ValueError", W |-> a.W, S |-> a.S]
      ELSE
        Bind(IF aligned THEN b
             ELSE IF units = 1
               THEN SubSeq(first_unit.b, 1, b_start) \o b
                    \o SubSeq(first_unit.b, b_start + size + 1, ClusterCells)
             ELSE SubSeq(first_unit.b, 1, b_start) \o b
                  \o SubSeq(last_unit.b, keep_last_unit + 1, ClusterCells),
             LAMBDA to_write :
        Bind(WriteUnits(a.W, a.S, start_unit, to_write, t), LAMBDA w :
        IF w.st # "ok" THEN w
        ELSE [st |-> "ok", W |-> w.W, S |-> [w.S EXCEPT !.pos = @ + size]])))))

RECURSIVE ReadUnitsFrom(_, _, _, _)
ReadUnitsFrom(W, S, u, count) ==
  IF count = 0 THEN [st |-> "ok", b |-> <<>>]
  ELSE Bind(ReadUnit(W, S, u), LAMBDA r :
       Bind(ReadUnitsFrom(W, S, u + 1, count - 1), LAMBDA rest :
         IF r.st # "ok" THEN r
         ELSE IF rest.st # "ok" THEN rest
         ELSE [st |-> "ok", b |-> r.b \o rest.b]))

\* _InternalIO.read(size) at position pos (size < 0: to the end)
Read(W, S, pos, size) ==
  IF size = 0 \/ pos >= S.size THEN [st |-> "ok", b |-> <<>>]
  ELSE
    LET n == IF size < 0 \/ pos + size > S.size THEN S.size - pos ELSE size
        stop == pos + n
        start_unit == pos \div ClusterCells
        stop_unit == (stop - 1) \div ClusterCells + 1
        b_start == pos % ClusterCells
    IN  Bind(ReadUnitsFrom(W, S, start_unit, stop_unit - start_unit), LAMBDA r :
          IF r.st # "ok" THEN r
          ELSE [st |-> "ok", b |-> SubSeq(r.b, b_start + 1, b_start + n)])

(***************************************************************************)
(* Directory scan: iter_entries over the cells of a directory stream.      *)
(* Items are [t |-> "e", e |-> Entry] (useful) or [t |-> "raw"] (one slot  *)
(* that is not useful).  A data cell found in a directory is a slot that   *)
(* is not useful.                                                          *)
(***************************************************************************)
RawItems(n) == [i \in 1..n |-> [t |-> "raw"]]

\* Entry(edt_entry, pending_vfat_entries) succeeds: every VFAT entry carries
\* the checksum of the 8.3 name (each VFAT cell here has the last-LFN bit)
EntryValid(cell, pending) == \A i \in 1..Len(pending) : pending[i].sum = cell.dos

EntryOf(cell, pending) ==
  IF pending # <<>> /\ EntryValid(cell, pending)
    THEN MkEntry(pending[Len(pending)].name, cell.dos, TRUE, cell.dir, cell.lo,
                 cell.hi, cell.size, cell.stamp)
    ELSE MkEntry(cell.dos, cell.dos, FALSE, cell.dir, cell.lo, cell.hi,
                 cell.size, cell.stamp)

RECURSIVE IterFrom(_, _, _)
IterFrom(cells, i, pending) ==
  IF i > Len(cells) THEN <<>>
  ELSE LET c == cells[i] IN
    IF c.k = "z" THEN RawItems(Len(pending))          \* END_OF_ENTRIES
    ELSE IF c.k \in {"del", "b"}
      THEN RawItems(Len(pending)) \o <<[t |-> "raw"]>> \o IterFrom(cells, i + 1, <<>>)
    ELSE IF c.k = "lfn" THEN IterFrom(cells, i + 1, Append(pending, c))
    ELSE IF pending = <<>> \/ EntryValid(c, pending)
      THEN <<[t |-> "e", e |-> EntryOf(c, pending)]>> \o IterFrom(cells, i + 1, <<>>)
    ELSE RawItems(Len(pending)) \o <<[t |-> "e", e |-> EntryOf(c, <<>>)]>>
         \o IterFrom(cells, i + 1, <<>>)

\* iter_entries(bytes_iter, only_useful=False)
iter_entries(cells) == IterFrom(cells, 1, <<>>)

ItemSlots(item) == IF item.t = "e" THEN TotalEntries(item.e) ELSE 1

RECURSIVE SumSlots(_)
SumSlots(items) ==
  IF items = <<>> THEN 0 ELSE ItemSlots(Head(items)) + SumSlots(Tail(items))

RECURSIVE UsefulEntries(_)
\* only_useful=True: the Entry objects only
UsefulEntries(items) ==
  IF items = <<>> THEN <<>>
  ELSE IF Head(items).t = "e" THEN <<Head(items).e>> \o UsefulEntries(Tail(items))
  ELSE UsefulEntries(Tail(items))

\* FileSystem._scandir(entry, only_useful=False): [st, items]
Scandir(W, e) ==
  IF e # NoEntry /\ (~e.dir \/ EntryCluster(e, FALSE) = 0)
    THEN [st |-> "ok", items |-> <<>>]                \* file or empty directory
  ELSE
    Bind(GetInternalIO(W, e), LAMBDA io :
    IF io.st # "ok" THEN [st |-> io.st, items |-> <<>>]
    ELSE Bind(Read(W, io.S, 0, -1), LAMBDA r :
         IF r.st # "ok" THEN [st |-> r.st, items |-> <<>>]
         ELSE [st |-> "ok", items |-> iter_entries(r.b)]))

(***************************************************************************)
(* create_entry and updated_entry.                                         *)
(***************************************************************************)
DosNames(entries) == {entries[i].dos : i \in 1..Len(entries)}

\* the cluster number as the two 16-bit fields hold it
cluster_low(cluster) == cluster % LOW_BYTE_SPAN                \* cluster & 0xFF
cluster_high(cluster) == cluster \div 65536           \* cluster >> 16

\* create_entry(existing, filename, attributes, created, ..., cluster, size)
create_entry(existing, filename, dir, stamp, cluster, size) ==
  IF \E i \in 1..Len(existing) : EntryMatch(filename, existing[i])
    THEN [st |-> "ValueError", e |-> NoEntry]            \* name already exists
  ELSE IF cluster_high(cluster) # 0
    THEN [st |-> "ValueError", e |-> NoEntry]            \* high bits, not FAT32
  ELSE [st |-> "ok",
        e |-> MkEntry(filename, VfatToDosFilename(filename, DosNames(existing)),
                      filename \in LongNames, dir, cluster_low(cluster),
                      cluster_high(cluster), size, stamp)]

\* updated_entry(entry, new_cluster, new_size, last_accessed, last_modified)
updated_entry(entry, new_cluster, new_size, last_modified) ==
  IF cluster_high(new_cluster) # 0 THEN [st |-> "ValueError", e |-> entry]
  ELSE [st |-> "ok",
        e |-> [entry EXCEPT !.lo = cluster_low(new_cluster),
                            !.hi = cluster_high(new_cluster),
                            !.size = new_size,
                            !.stamp = IF last_modified = -1 THEN @
                                      ELSE last_modified]]

(***************************************************************************)
(* The cached Node tree.  Node = [entry, children, in_use]; children is    *)
(* None (not parsed yet) or a sequence of Nodes.  W.cache is the children  *)
(* of the Root.  A node is addressed by idx, the child indices from the    *)
(* root; a node found below a directory whose children are not cached is   *)
(* a fresh Node object that no list holds (pers = FALSE): what is assigned *)
(* to it is lost when the call returns.                                    *)
(***************************************************************************)
MkNode(e, children) == [entry |-> e, children |-> children, in_use |-> FALSE]

\* Node(child_entry) for each useful entry of a scan
FreshNodes(entries) == [i \in 1..Len(entries) |-> MkNode(entries[i], NotParsed)]

FirstMatch(kids, part) ==
  IF \E i \in 1..Len(kids) : EntryMatch(part, kids[i].entry)
    THEN CHOOSE i \in 1..Len(kids) :
           /\ EntryMatch(part, kids[i].entry)
           /\ \A j \in 1..(i - 1) : ~EntryMatch(part, kids[j].entry)
    ELSE 0

\* the in_use assignments of _find_node
Flagged(node, mode) ==
  IF mode = "set" THEN [node EXCEPT !.in_use = TRUE]
  ELSE IF mode = "unset" THEN [node EXCEPT !.in_use = FALSE]
  ELSE node

\* The loop of _find_node below one directory whose children value is ch
\* and whose entry is dent.  Result: st, the node found, whether it is held
\* by the cache, its idx, and ch as the walk leaves it.  _get_children
\* stores the scanned list only when the scan runs to its end, which a
\* match (return or break) prevents.
RECURSIVE FindIn(_, _, _, _, _)
FindIn(W, ch, dent, parts, mode) ==
  LET fail(st, c) == [st |-> st, node |-> NoNode, pers |-> FALSE, idx |-> <<>>, ch |-> c]
  IN
  Bind(IF ch # NotParsed THEN [st |-> "ok", items |-> <<>>] ELSE Scandir(W, dent),
       LAMBDA sc :
  IF sc.st # "ok" THEN fail(sc.st, ch)
  ELSE
  Bind(IF ch # NotParsed THEN ch ELSE FreshNodes(UsefulEntries(sc.items)),
       LAMBDA kids :
  Bind(FirstMatch(kids, Head(parts)), LAMBDA i :
  IF i = 0 THEN fail("ENOENT", kids)
  ELSE
    Bind(Flagged(kids[i], mode), LAMBDA c1 :
    Bind(IF ch # NotParsed THEN [ch EXCEPT ![i] = c1] ELSE NotParsed, LAMBDA kept :
    IF Len(parts) = 1
      THEN IF mode = "check" /\ c1.in_use THEN fail("EACCES", kept)
           ELSE [st |-> "ok", node |-> c1, pers |-> ch # NotParsed, idx |-> <<i>>,
                 ch |-> kept]
    ELSE IF ~c1.entry.dir THEN fail("ENOENT", kept)
    ELSE
      Bind(FindIn(W, c1.children, c1.entry, Tail(parts), mode), LAMBDA r :
      [st |-> r.st, node |-> r.node, pers |-> r.pers /\ ch # NotParsed,
       idx |-> <<i>> \o r.idx,
       ch |-> IF ch # NotParsed THEN [ch EXCEPT ![i] = [c1 EXCEPT !.children = r.ch]]
              ELSE NotParsed]))))))

\* FileSystem._find_node(path, set_in_use / unset_in_use / check_in_use);
\* path is the realpath as a sequence of parts; the root is not found.
\* Returns [st, node, pers, idx, W].
FindNode(W, path, mode) ==
  IF path = <<>>
    THEN [st |-> "ENOENT", node |-> NoNode, pers |-> FALSE, idx |-> <<>>, W |-> W]
  ELSE Bind(FindIn(W, W.cache, NoEntry, path, mode), LAMBDA r :
         [st |-> r.st, node |-> r.node, pers |-> r.pers, idx |-> r.idx,
          W |-> [W EXCEPT !.cache = r.ch]])

\* the Root as a node value
RootNode(W) == [entry |-> NoEntry, children |-> W.cache, in_use |-> FALSE]

\* FileSystem._find_node_or_root
FindNodeOrRoot(W, path) ==
  IF path = <<>>
    THEN [st |-> "ok", node |-> RootNode(W), pers |-> TRUE, idx |-> <<>>, W |-> W]
  ELSE FindNode(W, path, "none")

Parent(path) == SubSeq(path, 1, Len(path) - 1)
Last(path) == path[Len(path)]

RECURSIVE NodeAt(_, _)
\* the node object at idx (idx # <<>>)
NodeAt(ch, idx) ==
  IF Len(idx) = 1 THEN ch[idx[1]] ELSE NodeAt(ch[idx[1]].children, Tail(idx))

RECURSIVE ChildrenAt(_, _)
\* the children list of the directory at idx (<<>> is the Root)
ChildrenAt(ch, idx) ==
  IF idx = <<>> THEN ch ELSE ChildrenAt(ch[idx[1]].children, Tail(idx))

RECURSIVE WithNodeAt(_, _, _)
WithNodeAt(ch, idx, node) ==
  IF Len(idx) = 1 THEN [ch EXCEPT ![idx[1]] = node]
  ELSE [ch EXCEPT ![idx[1]] =
          [@ EXCEPT !.children = WithNodeAt(@, Tail(idx), node)]]

RECURSIVE WithChildrenAt(_, _, _)
WithChildrenAt(ch, idx, kids) ==
  IF idx = <<>> THEN kids
  ELSE [ch EXCEPT ![idx[1]] =
          [@ EXCEPT !.children = WithChildrenAt(@, Tail(idx), kids)]]

\* node.entry = new_entry on the node a walk returned
SetNodeEntry(W, f, e) ==
  IF ~f.pers \/ NodeAt(W.cache, f.idx).entry = e THEN W
  ELSE [W EXCEPT !.cache = WithNodeAt(@, f.idx, [NodeAt(@, f.idx) EXCEPT !.entry = e]),
                 !.log = Append(@, "entry")]

(***************************************************************************)
(* Entry transformation.                                                   *)
(***************************************************************************)
\* DataIO.start_cluster
StartCluster(S) == IF Len(S.chain) > 0 THEN S.chain[1] ELSE 0

\* index of the first Entry item that entry_match(old.filename, .) accepts
FoundItem(items, old) ==
  IF \E i \in 1..Len(items) : items[i].t = "e" /\ EntryMatch(old.name, items[i].e)
    THEN CHOOSE i \in 1..Len(items) :
           /\ items[i].t = "e" /\ EntryMatch(old.name, items[i].e)
           /\ \A j \in 1..(i - 1) :
                ~(items[j].t = "e" /\ EntryMatch(old.name, items[j].e))
    ELSE 0

RECURSIVE DeleteSlots(_, _, _, _)
\* for _ in range(to_delete): buffer.write(DELETED_BYTE); buffer.seek(...)
DeleteSlots(W, S, pos, n) ==
  IF n = 0 THEN [st |-> "ok", W |-> W, S |-> S]
  ELSE Bind(Write(W, [S EXCEPT !.pos = pos], <<DelCell>>, W.now), LAMBDA w :
       IF w.st # "ok" THEN w ELSE DeleteSlots(w.W, w.S, pos + 1, n - 1))

RECURSIVE TransformEntry(_, _, _, _, _), UpdateEntryByStream(_, _, _)

\* FileSystem._transform_entry(old_entry, new_entry, parent_entry, parent_path)
TransformEntry(W, old, new, parent_entry, parent_path) ==
  IF old = new THEN [st |-> "ok", W |-> W]
  ELSE
    Bind(Scandir(W, parent_entry), LAMBDA sc :
    Bind(GetInternalIO(W, parent_entry), LAMBDA io :
    IF sc.st # "ok" THEN [st |-> sc.st, W |-> W]
    ELSE IF io.st # "ok" THEN [st |-> io.st, W |-> W]
    ELSE
      Bind(sc.items, LAMBDA items :
      Bind(IF old = NoEntry THEN 0 ELSE FoundItem(items, old), LAMBDA k :
      Bind(SumSlots(SubSeq(items, 1, k - 1)), LAMBDA old_entries_start :
      Bind(IF k = 0 THEN 0 ELSE TotalEntries(items[k].e), LAMBDA old_total_entries :
      Bind(IF new = NoEntry THEN 0 ELSE TotalEntries(new), LAMBDA new_total_entries :
      Bind(IF new = NoEntry \/ new_total_entries > old_total_entries
             THEN old_total_entries
             ELSE old_total_entries - new_total_entries, LAMBDA to_delete :
      \* the try block up to the writes that seek flushes
      Bind(IF old = NoEntry THEN [st |-> "ok", W |-> W, S |-> io.S]
           ELSE IF k = 0 THEN [st |-> "ValueError", W |-> W, S |-> io.S]
           ELSE DeleteSlots(W, io.S, old_entries_start, to_delete), LAMBDA d :
      Bind(old # NoEntry /\ new # NoEntry
           /\ new_total_entries <= old_total_entries, LAMBDA replaced_old_entry :
      Bind(IF replaced_old_entry THEN old_entries_start + to_delete
           ELSE SumSlots(items), LAMBDA at :
      \* buffer.close() flushes the new entry's bytes
      Bind(IF d.st = "ok" /\ new # NoEntry
             THEN Write(d.W, [d.S EXCEPT !.pos = at], EntryBytes(new), W.now)
             ELSE d, LAMBDA w :
      \* finally: update cluster number, size etc. of the parent entry
      Bind(IF parent_path # <<>> /\ (d.st # "ok" \/ w.st = "ok")
             THEN UpdateEntryByStream(w.W, w.S, parent_path)
             ELSE [st |-> "ok", W |-> w.W], LAMBDA u :
      [st |-> IF w.st # "ok" THEN w.st ELSE u.st, W |-> u.W])))))))))))))

\* FileSystem._update_entry_by_stream(stream, path)
UpdateEntryByStream(W, S, path) ==
  Bind(FindNode(W, path, "none"), LAMBDA f :
  IF f.st # "ok" THEN [st |-> f.st, W |-> f.W]
  ELSE
    Bind(updated_entry(f.node.entry, StartCluster(S), S.size, S.lw), LAMBDA ne :
    Bind(FindNodeOrRoot(f.W, Parent(path)), LAMBDA p :
    IF ne.st # "ok" THEN [st |-> ne.st, W |-> f.W]
    ELSE IF p.st # "ok" THEN [st |-> p.st, W |-> p.W]
    ELSE
      Bind(TransformEntry(p.W, f.node.entry, ne.e, p.node.entry, Parent(path)),
           LAMBDA tr :
        IF tr.st # "ok" THEN tr
        ELSE [st |-> "ok", W |-> SetNodeEntry(tr.W, f, ne.e)]))))

\* parent.entry and parent.children as they are now, for the node object a
\* walk f returned earlier in the call
CurEntry(W, f) ==
  IF f.pers /\ f.idx # <<>> THEN NodeAt(W.cache, f.idx).entry ELSE f.node.entry
CurChildren(W, f) ==
  IF f.pers THEN ChildrenAt(W.cache, f.idx) ELSE f.node.children

\* FileSystem._get_children(parent) run to its end on the node a walk
\* returned: the cached list, or a scan that is then stored in the node.
\* Returns [st, kids, W].
GetChildrenAll(W, f) ==
  IF CurChildren(W, f) # NotParsed
    THEN [st |-> "ok", kids |-> CurChildren(W, f), W |-> W]
  ELSE
    Bind(Scandir(W, CurEntry(W, f)), LAMBDA sc :
    Bind(FreshNodes(UsefulEntries(sc.items)), LAMBDA kids :
      IF sc.st # "ok" THEN [st |-> sc.st, kids |-> <<>>, W |-> W]
      ELSE [st |-> "ok", kids |-> kids,
            W |-> IF f.pers
                    THEN [W EXCEPT !.cache = WithChildrenAt(@, f.idx, kids)]
                    ELSE W]))

NodeEntries(kids) == [i \in 1..Len(kids) |-> kids[i].entry]

\* _create_child that appends the node before the entry is on disk
CreateChild_early(W, path, f, directory) ==
  Bind(GetChildrenAll(W, f), LAMBDA g :
  Bind(create_entry(NodeEntries(g.kids), Last(path), directory, W.now, 0, 0),
       LAMBDA ce :
  IF g.st # "ok" THEN [st |-> g.st, node |-> NoNode, W |-> g.W]
  ELSE IF ce.st # "ok" THEN [st |-> ce.st, node |-> NoNode, W |-> g.W]
  ELSE
    Bind(MkNode(ce.e, <<>>), LAMBDA node :
    Bind(IF f.pers
           THEN [g.W EXCEPT
                   !.cache = WithChildrenAt(@, f.idx,
                               Append(ChildrenAt(@, f.idx), node)),
                   !.log = Append(@, "list")]
           ELSE g.W, LAMBDA W1 :
    Bind(TransformEntry(W1, NoEntry, ce.e, CurEntry(W1, f), Parent(path)),
         LAMBDA tr :
      [st |-> tr.st, node |-> node, W |-> tr.W])))))

\* FileSystem._create_child(path, parent, directory): [st, node, W]; f is
\* the walk that returned parent.
CreateChild(W, path, f, directory) ==
  Bind(GetChildrenAll(W, f), LAMBDA g :
  Bind(create_entry(NodeEntries(g.kids), Last(path), directory, W.now, 0, 0),
       LAMBDA ce :
  IF g.st # "ok" THEN [st |-> g.st, node |-> NoNode, W |-> g.W]
  ELSE IF ce.st # "ok" THEN [st |-> ce.st, node |-> NoNode, W |-> g.W]
  ELSE
    Bind(MkNode(ce.e, <<>>), LAMBDA node :
    Bind(TransformEntry(g.W, NoEntry, ce.e, CurEntry(g.W, f), Parent(path)),
         LAMBDA tr :
    IF tr.st # "ok" THEN [st |-> tr.st, node |-> NoNode, W |-> tr.W]
    ELSE [st |-> "ok", node |-> node,
          W |-> IF f.pers
                  THEN [tr.W EXCEPT
                          !.cache = WithChildrenAt(@, f.idx,
                                      Append(ChildrenAt(@, f.idx), node)),
                          !.log = Append(@, "list")]
                  ELSE tr.W]))))

(***************************************************************************)
(* State of a FileSystem object and of the volume below it.                *)
(***************************************************************************)
VARIABLES
  writable,    \* Volume.writable
  now,         \* what datetime.now() reads during the behaviour
  fat,         \* the Fat: entry index -> value
  data,        \* data region: cluster -> cells
  rootdir,     \* root directory region: cells
  cache,       \* FileSystem._root.children
  fd_table,    \* FileSystem._fd_table: fd -> [stream, flags, path]
  streams,     \* the DataIO objects of the fd table: id -> stream
  cwd,         \* FileSystem._cwd
  result,      \* the last public call and how it ended
  oplog,       \* events of the last public call
  steps        \* public calls made so far

\* the threads that share the FileSystem, and its mutex
VARIABLES
  lock,        \* FileSystem._lock: Unlocked, or the thread that holds it
  pc,          \* thread -> where it stands in the call it is making
  call,        \* thread -> the public method it is in, and its argument
  gen,         \* thread -> the scandir generator the thread consumes
  rootkids,        \* names in the cached children list of the root directory
  seen         \* thread -> the CWD that getcwd / realpath last read

fsVars == <<writable, now, fat, data, rootdir, cache, fd_table, streams,
            result, oplog>>
lockVars == <<lock, pc, call, gen, rootkids, seen>>

\* a Fat object over the sectors of a volume
VARIABLES
  fat_type,    \* BootSector.fat_type: 12, 16 or 32
  disk,        \* the bytes of the volume
  main_fat,    \* Fat._main_fat
  buffer,      \* Fat._buffer: [bytes, offset, altered]
  fat_open     \* a Fat object exists (its constructor did not raise)

fatVars == <<fat_type, disk, main_fat, buffer, fat_open>>

\* a Disk object over a file or block device, and the partition table codecs
VARIABLES
  sector_size, \* Disk._sector_size.logical
  media,       \* what the file or device holds: [size, sectors]
  opened,      \* a Disk object exists (its constructor did not raise)
  table,       \* Disk._table
  held         \* the Table object the last codec call returned

tableVars == <<sector_size, media, opened, table, held>>
vars == <<fsVars, cwd, steps, lockVars, fatVars, tableVars>>

NoTable == [type |-> "none"]
\* no Disk object is modelled
TableIdle ==
  /\ sector_size = 0
  /\ media = <<>>
  /\ opened = FALSE
  /\ table = NoTable
  /\ held = NoTable

NoBuffer == [bytes |-> <<>>, offset |-> -1, altered |-> FALSE]
\* no Fat object is modelled
FatIdle ==
  /\ fat_type = 12
  /\ disk = <<>>
  /\ main_fat = 0
  /\ buffer = NoBuffer
  /\ fat_open = FALSE

Unlocked == 0
Threads == 1..NThreads
NoCall == [m |-> "none", name |-> "none"]
NoGen == [st |-> "none", dir |-> "none", pos |-> 0]

\* no thread is inside the FileSystem
LockIdle ==
  /\ lock = Unlocked
  /\ pc = [t \in Threads |-> "idle"]
  /\ call = [t \in Threads |-> NoCall]
  /\ gen = [t \in Threads |-> NoGen]
  /\ rootkids = <<>>
  /\ seen = [t \in Threads |-> <<>>]

\* the world at the start of a public call
World == [fat |-> fat, dirty |-> FALSE, data |-> data, root |-> rootdir,
          cache |-> cache, now |-> now, log |-> <<>>]

\* parse_flags that drops O_EXCL
parse_flags_no_excl(flags) ==
  LET wr == flags.acc \in {"w", "rw"}
  IN  IF flags.excl /\ ~flags.creat THEN [st |-> "ValueError"]
      ELSE IF flags.creat /\ ~wr THEN [st |-> "ValueError"]
      ELSE IF flags.trunc /\ ~wr THEN [st |-> "ValueError"]
      ELSE [st |-> "ok", readable |-> flags.acc \in {"r", "rw"}, writable |-> wr,
            creating |-> flags.creat, exclusive |-> FALSE,
            truncating |-> flags.trunc]

\* parse_flags(flags); flags = [acc, creat, excl, trunc]
parse_flags(flags) ==
  LET readable == flags.acc \in {"r", "rw"}
      wr == flags.acc \in {"w", "rw"}
  IN  IF flags.excl /\ ~flags.creat THEN [st |-> "ValueError"]
      ELSE IF flags.creat /\ ~wr THEN [st |-> "ValueError"]
      ELSE IF flags.trunc /\ ~wr THEN [st |-> "ValueError"]
      ELSE [st |-> "ok", readable |-> readable, writable |-> wr,
            creating |-> flags.creat, exclusive |-> flags.excl,
            truncating |-> flags.trunc]

Flag(acc, creat, excl, trunc) ==
  [acc |-> acc, creat |-> creat, excl |-> excl, trunc |-> trunc]
\* the flag words openfd is called with: O_RDONLY, O_WRONLY, O_WRONLY |
\* O_CREAT, O_WRONLY | O_CREAT | O_EXCL, O_RDONLY | O_CREAT | O_EXCL,
\* O_WRONLY | O_TRUNC
Flags == {Flag("r", FALSE, FALSE, FALSE), Flag("w", FALSE, FALSE, FALSE),
          Flag("w", TRUE, FALSE, FALSE), Flag("w", TRUE, TRUE, FALSE),
          Flag("r", TRUE, TRUE, FALSE), Flag("w", FALSE, FALSE, TRUE)}

\* FileSystem._new_fd
NewFd(tbl) == CHOOSE fd \in FIRST_FD..(FIRST_FD + Cardinality(DOMAIN tbl)) :
                /\ fd \notin DOMAIN tbl
                /\ \A g \in FIRST_FD..(fd - 1) : g \in DOMAIN tbl

NewStreamId(strs) == CHOOSE i \in 1..(Cardinality(DOMAIN strs) + 1) :
                       /\ i \notin DOMAIN strs
                       /\ \A j \in 1..(i - 1) : j \in DOMAIN strs

\* the stream of the first row whose path equals realpath, or 0
StreamOfPath(tbl, path) ==
  IF \E fd \in DOMAIN tbl : tbl[fd].path = path
    THEN LET fd == CHOOSE fd \in DOMAIN tbl :
                     /\ tbl[fd].path = path
                     /\ \A g \in DOMAIN tbl : tbl[g].path = path => fd <= g
         IN  tbl[fd].stream
    ELSE 0

Put(f, k, v) == [x \in DOMAIN f \cup {k} |-> IF x = k THEN v ELSE f[x]]
Drop(f, k) == [x \in DOMAIN f \ {k} |-> f[x]]

\* increment_fd_count that forgets to count
increment_fd_count_lost(S) == S

\* DataIO.increment_fd_count
increment_fd_count(S) == [S EXCEPT !.fd_count = @ + 1]

\* DataIO.decrement_fd_count: [st, S]
decrement_fd_count(S) ==
  IF S.fd_count <= 0 THEN [st |-> "ValueError", S |-> S]
  ELSE [st |-> "ok", S |-> [S EXCEPT !.fd_count = @ - 1]]

\* a DataIO object of the fd table
FdStream(S) == [kind |-> S.kind, chain |-> S.chain, size |-> S.size, pos |-> S.pos,
                lw |-> S.lw, fd_count |-> 0, closed |-> FALSE]

\* FileSystem.openfd(path, flags): [st, W, tbl, strs, fd]
openfd(W, tbl, strs, path, flags) ==
  LET out(st, Wx) == [st |-> st, W |-> Wx, tbl |-> tbl, strs |-> strs, fd |-> 0]
  IN
  Bind(parse_flags(flags), LAMBDA pf :
  IF path = <<>> THEN out("EISDIR", W)
  ELSE IF pf.st # "ok" THEN out(pf.st, W)
  ELSE IF pf.writable /\ ~writable THEN out("ValueError", W)
  ELSE
    Bind(StreamOfPath(tbl, path), LAMBDA shared :
    Bind(FindNodeOrRoot(W, Parent(path)), LAMBDA parent :
    Bind(FindNode(parent.W, path, "none"), LAMBDA found :
    Bind(CreateChild(found.W, path, parent, FALSE), LAMBDA made :
    Bind(found.st = "ENOENT" /\ pf.creating, LAMBDA creates :
    Bind(IF creates THEN made.node ELSE found.node, LAMBDA node :
    Bind(IF creates THEN made.W ELSE found.W, LAMBDA W1 :
    Bind(DataIOInit(W1, node.entry), LAMBDA io :
    Bind(FindNode(W1, path, "set"), LAMBDA flagged :
    Bind(shared # 0 \/ ~creates, LAMBDA exists :
    Bind(IF shared # 0 THEN shared ELSE NewStreamId(strs), LAMBDA sid :
    Bind(IF shared # 0 THEN strs ELSE Put(strs, sid, FdStream(io.S)), LAMBDA strs1 :
    Bind(IF shared # 0 THEN W ELSE flagged.W, LAMBDA W2 :
    Bind(NewFd(tbl), LAMBDA fd :
    Bind(Put(tbl, fd, [stream |-> sid,
                       flags |-> [readable |-> pf.readable,
                                  writable |-> pf.writable],
                       path |-> path]), LAMBDA tbl1 :
    Bind([strs1 EXCEPT ![sid] = increment_fd_count(@)], LAMBDA strs2 :
    Bind(Truncate(W2, strs2[sid], 0, W2.now), LAMBDA tr :
    IF shared = 0 /\ parent.st # "ok" THEN out(parent.st, parent.W)
    ELSE IF shared = 0 /\ found.st # "ok" /\ ~creates THEN out(found.st, found.W)
    ELSE IF shared = 0 /\ creates /\ made.st # "ok" THEN out(made.st, made.W)
    ELSE IF shared = 0 /\ ~creates /\ node.entry.dir THEN out("EISDIR", W1)
    ELSE IF shared = 0 /\ io.st # "ok" THEN out(io.st, W1)
    ELSE IF shared = 0 /\ flagged.st # "ok" THEN out(flagged.st, flagged.W)
    ELSE IF exists /\ pf.exclusive THEN out("EEXIST", W2)
    ELSE IF ~pf.truncating
      THEN [st |-> "ok", W |-> W2, tbl |-> tbl1, strs |-> strs2, fd |-> fd]
    ELSE [st |-> tr.st, W |-> tr.W, tbl |-> tbl1,
          strs |-> [strs2 EXCEPT ![sid] = tr.S], fd |-> fd]))))))))))))))))))

\* FileSystem.closefd(fd): [st, W, tbl, strs, closed]
closefd(W, tbl, strs, fd) ==
  IF fd \notin DOMAIN tbl
    THEN [st |-> "EBADF", W |-> W, tbl |-> tbl, strs |-> strs, closed |-> FALSE]
  ELSE
    Bind(tbl[fd], LAMBDA row :
    Bind(UpdateEntryByStream(W, strs[row.stream], row.path), LAMBDA up :
    Bind(Drop(tbl, fd), LAMBDA tbl1 :
    Bind(decrement_fd_count(strs[row.stream]), LAMBDA dec :
    Bind(dec.S.fd_count <= 0, LAMBDA not_in_use :
    Bind(IF not_in_use THEN Drop(strs, row.stream)
         ELSE [strs EXCEPT ![row.stream] = dec.S], LAMBDA strs2 :
    Bind(FindNode(up.W, row.path, IF not_in_use THEN "unset" ELSE "none"),
         LAMBDA clr :
    IF up.st # "ok"
      THEN [st |-> up.st, W |-> up.W, tbl |-> tbl, strs |-> strs, closed |-> FALSE]
    ELSE IF dec.st # "ok"
      THEN [st |-> dec.st, W |-> up.W, tbl |-> tbl1, strs |-> strs, closed |-> FALSE]
    ELSE [st |-> clr.st, W |-> clr.W, tbl |-> tbl1, strs |-> strs2,
          closed |-> not_in_use])))))))

\* FileSystem.writefd(fd, b): [st, W, strs]
writefd(W, tbl, strs, fd, b) ==
  IF fd \notin DOMAIN tbl THEN [st |-> "EBADF", W |-> W, strs |-> strs]
  ELSE IF ~tbl[fd].flags.writable
    THEN [st |-> "UnsupportedOperation", W |-> W, strs |-> strs]
  ELSE Bind(Write(W, strs[tbl[fd].stream], b, W.now), LAMBDA w :
         [st |-> w.st, W |-> w.W, strs |-> [strs EXCEPT ![tbl[fd].stream] = w.S]])

(***************************************************************************)
(* Directory operations.                                                   *)
(***************************************************************************)
\* the node object a walk returned, as it is now
CurNode(W, f) == IF f.pers THEN NodeAt(W.cache, f.idx) ELSE f.node

\* list.remove(x): the first element equal to x goes; 0 when none is equal
PosEqual(list, x) ==
  IF \E i \in 1..Len(list) : list[i] = x
    THEN CHOOSE i \in 1..Len(list) :
           list[i] = x /\ \A j \in 1..(i - 1) : list[j] # x
    ELSE 0
Without(list, i) == SubSeq(list, 1, i - 1) \o SubSeq(list, i + 1, Len(list))

IsPrefix(a, b) == Len(a) <= Len(b) /\ SubSeq(b, 1, Len(a)) = a

\* where the object at idx is after position pos left the list of the
\* directory at dir; NoIdx when the object went with the removed node
Shifted(idx, dir, pos) ==
  IF idx = NoIdx THEN NoIdx
  ELSE IF IsPrefix(dir, idx) /\ Len(idx) > Len(dir)
    THEN IF idx[Len(dir) + 1] = pos THEN NoIdx
         ELSE IF idx[Len(dir) + 1] > pos
           THEN [idx EXCEPT ![Len(dir) + 1] = @ - 1]
         ELSE idx
  ELSE idx

\* an "any children?" that never sees a child
AnyChildren_none(W, f) == [st |-> "ok", any |-> FALSE, W |-> W]

\* "any children?": next(self._get_children(node), False) on the node of
\* walk f.  A scan that finds nothing runs to its end and is stored.
AnyChildren(W, f) ==
  IF CurChildren(W, f) # NotParsed
    THEN [st |-> "ok", any |-> CurChildren(W, f) # <<>>, W |-> W]
  ELSE Bind(Scandir(W, CurEntry(W, f)), LAMBDA sc :
       Bind(UsefulEntries(sc.items), LAMBDA kids :
         [st |-> sc.st, any |-> kids # <<>>,
          W |-> IF sc.st = "ok" /\ kids = <<>> /\ f.pers
                  THEN [W EXCEPT !.cache = WithChildrenAt(@, f.idx, <<>>)]
                  ELSE W]))

\* with self._get_internal_io(entry) as stream: stream.truncate(0)
TruncateEntry(W, e) ==
  Bind(GetInternalIO(W, e), LAMBDA io :
  IF io.st # "ok" THEN [st |-> io.st, W |-> W]
  ELSE Bind(Truncate(W, io.S, 0, W.now), LAMBDA tr : [st |-> tr.st, W |-> tr.W]))

\* parent.children_parsed.remove(node), parent and node from walks p and f
RemoveChild(W, p, f) ==
  Bind(CurChildren(W, p), LAMBDA kids :
  Bind(IF kids = NotParsed THEN 0 ELSE PosEqual(kids, CurNode(W, f)), LAMBDA pos :
    IF kids = NotParsed THEN [st |-> "RuntimeError", W |-> W, pos |-> 0]
    ELSE IF pos = 0 THEN [st |-> "ValueError", W |-> W, pos |-> 0]
    ELSE [st |-> "ok", pos |-> pos,
          W |-> IF p.pers
                  THEN [W EXCEPT !.cache = WithChildrenAt(@, p.idx, Without(kids, pos)),
                                 !.log = Append(@, "list")]
                  ELSE W]))

\* the body shared by rmdir and unlink once the node is found and checked
RemoveNode(W, path, f) ==
  Bind(FindNodeOrRoot(W, Parent(path)), LAMBDA p :
  IF p.st # "ok" THEN [st |-> p.st, W |-> p.W]
  ELSE
  Bind(TransformEntry(p.W, CurEntry(p.W, f), NoEntry, CurEntry(p.W, p), Parent(path)),
       LAMBDA tr :
  IF tr.st # "ok" THEN tr
  ELSE
  Bind(TruncateEntry(tr.W, CurEntry(tr.W, f)), LAMBDA tc :
  IF tc.st # "ok" THEN tc
  ELSE
  Bind(RemoveChild(tc.W, p, f), LAMBDA rm : [st |-> rm.st, W |-> rm.W]))))

\* FileSystem.unlink(path)
unlink(W, path) ==
  Bind(FindNode(W, path, "check"), LAMBDA f :
  IF ~writable THEN [st |-> "ValueError", W |-> W]
  ELSE IF path = <<>> THEN [st |-> "EACCES", W |-> W]
  ELSE IF f.st # "ok" THEN [st |-> f.st, W |-> f.W]
  ELSE IF f.node.entry.dir THEN [st |-> "EISDIR", W |-> f.W]
  ELSE RemoveNode(f.W, path, f))

\* FileSystem.rmdir(path)
rmdir(W, path) ==
  Bind(FindNode(W, path, "check"), LAMBDA f :
  Bind(AnyChildren(f.W, f), LAMBDA a :
  IF ~writable THEN [st |-> "ValueError", W |-> W]
  ELSE IF path = <<>> THEN [st |-> "EACCES", W |-> W]
  ELSE IF f.st # "ok" THEN [st |-> f.st, W |-> f.W]
  ELSE IF ~f.node.entry.dir THEN [st |-> "ENOTDIR", W |-> f.W]
  ELSE IF a.st # "ok" THEN [st |-> a.st, W |-> a.W]
  ELSE IF a.any THEN [st |-> "ENOTEMPTY", W |-> a.W]
  ELSE RemoveNode(a.W, path, f)))

\* FileSystem.mkdir(path)
mkdir(W, path) ==
  Bind(FindNodeOrRoot(W, Parent(path)), LAMBDA p :
  Bind(FindNode(p.W, path, "none"), LAMBDA f :
  Bind(CreateChild(f.W, path, p, TRUE), LAMBDA c :
  IF ~writable THEN [st |-> "ValueError", W |-> W]
  ELSE IF path = <<>> THEN [st |-> "EACCES", W |-> W]
  ELSE IF p.st # "ok" THEN [st |-> p.st, W |-> p.W]
  ELSE IF f.st = "ok" THEN [st |-> "EEXIST", W |-> f.W]
  ELSE IF f.st # "ENOENT" THEN [st |-> f.st, W |-> f.W]
  ELSE [st |-> c.st, W |-> c.W])))

\* FileSystem._move(src, dst, replace=...): rename is replace = FALSE
move(W, src, dst, replace) ==
  LET out(st, Wx) == [st |-> st, W |-> Wx]
      logged(Wx, c) == IF c = Wx.cache THEN [Wx EXCEPT !.cache = c]
                       ELSE [Wx EXCEPT !.cache = c, !.log = Append(@, "list")]
  IN
  Bind(FindNode(W, src, "check"), LAMBDA s :
  Bind(FindNode(s.W, dst, "check"), LAMBDA d :
  Bind(d.st = "ok", LAMBDA has_dst :
  Bind(s.node.entry.dir, LAMBDA directory :
  Bind(IF has_dst /\ replace /\ directory /\ d.node.entry.dir
         THEN AnyChildren(d.W, d)
         ELSE [st |-> "ok", any |-> FALSE, W |-> d.W], LAMBDA a :
  Bind(has_dst /\ replace /\ directory /\ d.node.entry.dir
       /\ CurChildren(d.W, d) = NotParsed /\ ~a.any, LAMBDA scanned_dst :
  Bind(FindNodeOrRoot(a.W, Parent(src)), LAMBDA sp :
  Bind(FindNodeOrRoot(sp.W, Parent(dst)), LAMBDA dp :
  Bind(s.node.entry, LAMBDA src_entry :
  Bind(IF has_dst THEN d.node.entry ELSE NoEntry, LAMBDA dst_entry :
  Bind(GetChildrenAll(dp.W, dp), LAMBDA g :
  Bind(NodeEntries(g.kids), LAMBDA all :
  Bind(IF has_dst THEN PosEqual(all, dst_entry) ELSE 0, LAMBDA at :
  Bind(IF has_dst /\ at # 0 THEN Without(all, at) ELSE all, LAMBDA existing :
  Bind(create_entry(existing, Last(dst), src_entry.dir, src_entry.stamp,
                    EntryCluster(src_entry, FALSE), src_entry.size), LAMBDA ce :
  Bind(sp.pers /\ dp.pers /\ sp.idx = dp.idx, LAMBDA same :
  Bind(TransformEntry(g.W, dst_entry, NoEntry, CurEntry(g.W, dp), Parent(dst)), LAMBDA t1 :
  Bind(IF same
         THEN TransformEntry(t1.W, src_entry, ce.e, CurEntry(t1.W, sp), Parent(src))
         ELSE TransformEntry(t1.W, src_entry, NoEntry, CurEntry(t1.W, sp), Parent(src)), LAMBDA t2 :
  Bind(IF same \/ t2.st # "ok" THEN t2
       ELSE TransformEntry(t2.W, NoEntry, ce.e, CurEntry(t2.W, dp), Parent(dst)), LAMBDA t3 :
  Bind(IF has_dst THEN TruncateEntry(t3.W, dst_entry) ELSE out("ok", t3.W), LAMBDA tc :
  \* the node objects and the lists of their parents, as they are now
  Bind(CurNode(tc.W, s), LAMBDA src_node :
  Bind(IF ~has_dst THEN NoNode
       ELSE IF d.pers THEN NodeAt(tc.W.cache, d.idx)
       ELSE IF scanned_dst THEN [d.node EXCEPT !.children = <<>>]
       ELSE d.node, LAMBDA dst_node :
  Bind(MkNode(ce.e, src_node.children), LAMBDA new_node :
  Bind(IF dp.pers THEN ChildrenAt(tc.W.cache, dp.idx) ELSE g.kids, LAMBDA dkids :
  Bind(IF has_dst THEN PosEqual(dkids, dst_node) ELSE 0, LAMBDA dpos :
  Bind(IF has_dst /\ dpos # 0 THEN Without(dkids, dpos) ELSE dkids, LAMBDA dkids1 :
  Bind(IF has_dst /\ dpos # 0 /\ dp.pers
         THEN WithChildrenAt(tc.W.cache, dp.idx, dkids1)
         ELSE tc.W.cache, LAMBDA c1 :
  Bind(IF has_dst /\ dpos # 0 /\ dp.pers /\ sp.pers
         THEN Shifted(sp.idx, dp.idx, dpos) ELSE sp.idx, LAMBDA sidx :
  Bind(IF same THEN dkids1
       ELSE IF sp.pers /\ sidx # NoIdx THEN ChildrenAt(c1, sidx)
       ELSE sp.node.children, LAMBDA skids :
  Bind(IF skids = NotParsed THEN 0 ELSE PosEqual(skids, src_node), LAMBDA spos :
  Bind(IF spos # 0 /\ sp.pers /\ sidx # NoIdx
         THEN WithChildrenAt(c1, sidx, Without(skids, spos))
         ELSE c1, LAMBDA c2 :
  Bind(IF spos # 0 /\ sp.pers /\ sidx # NoIdx /\ dp.pers
         THEN Shifted(dp.idx, sidx, spos) ELSE dp.idx, LAMBDA didx :
  Bind(IF dp.pers /\ didx # NoIdx
         THEN WithChildrenAt(c2, didx, Append(ChildrenAt(c2, didx), new_node))
         ELSE c2, LAMBDA c3 :
  IF ~writable THEN out("ValueError", W)
  ELSE IF src = <<>> \/ dst = <<>> THEN out("EACCES", W)
  ELSE IF src = dst THEN out("ok", W)
  ELSE IF s.st # "ok" THEN out(s.st, s.W)
  ELSE IF d.st \notin {"ok", "ENOENT"} THEN out(d.st, d.W)
  ELSE IF has_dst /\ ~replace THEN out("EEXIST", d.W)
  ELSE IF has_dst /\ directory /\ ~d.node.entry.dir THEN out("ENOTDIR", d.W)
  ELSE IF has_dst /\ ~directory /\ d.node.entry.dir THEN out("EISDIR", d.W)
  ELSE IF a.st # "ok" THEN out(a.st, a.W)
  ELSE IF a.any THEN out("EEXIST", a.W)
  ELSE IF sp.st # "ok" THEN out(sp.st, sp.W)
  ELSE IF dp.st # "ok" THEN out(dp.st, dp.W)
  ELSE IF g.st # "ok" THEN out(g.st, g.W)
  ELSE IF has_dst /\ at = 0 THEN out("ValueError", g.W)
  ELSE IF ce.st # "ok" THEN out(ce.st, g.W)
  ELSE IF t1.st # "ok" THEN t1
  ELSE IF t3.st # "ok" THEN t3
  ELSE IF tc.st # "ok" THEN tc
  ELSE IF has_dst /\ dpos = 0 THEN out("ValueError", tc.W)
  ELSE IF skids = NotParsed THEN out("RuntimeError", logged(tc.W, c1))
  ELSE IF spos = 0 THEN out("ValueError", logged(tc.W, c1))
  ELSE out("ok", logged(tc.W, c3)))))))))))))))))))))))))))))))))))

(***************************************************************************)
(* Volumes and the state machine of one FileSystem object.                 *)
(***************************************************************************)
\* A formatted FAT12 volume with n usable data clusters, the first of them
\* being cluster `first`; the clusters below it are marked bad.
BlankFat(first, n) ==
  [k \in 0..(first + n - 1) |->
     IF k = 0 THEN CLUSTER_AVOID_DATA_12 + MEDIA_TYPE - 240
     ELSE IF k = 1 THEN CLUSTER_EOC_12
     ELSE IF k < first THEN BAD_CLUSTER_12
     ELSE CLUSTER_EMPTY]
BlankData(first, n) == [k \in 2..(first + n - 1) |-> ZeroUnit]
BlankRoot == [i \in 1..RootSize |-> ZeroCell]

Blank(first, n) ==
  [fat |-> BlankFat(first, n), dirty |-> FALSE, data |-> BlankData(first, n),
   root |-> BlankRoot, cache |-> NotParsed, now |-> 0, log |-> <<>>]

\* one unit holding the given cells, zero-padded
UnitOf(cells) == [i \in 1..ClusterCells |-> IF i <= Len(cells) THEN cells[i] ELSE ZeroCell]

\* The volumes a behaviour starts on, each as earlier calls of this program
\* leave it: "low" is freshly formatted; "full" holds the directory /A
\* (cluster 2), the file /A/A (cluster 3) and the file /LongName (cluster
\* 4), one cell of data each; "high" is a volume whose first usable cluster
\* lies beyond the low byte and which holds the empty directory /A.
Images == {"low", "full", "high"}
\* a directory entry as _update_entry_by_stream leaves it: the size of the
\* stream, that is of its chain
DirA(cluster) ==
  MkEntry("A", "A", FALSE, TRUE, cluster, 0, IF cluster = 0 THEN 0 ELSE ClusterCells, 0)
FileA == MkEntry("A", "A", FALSE, FALSE, 3, 0, 1, 0)
FileLong == MkEntry("LongName", Tilde(1), TRUE, FALSE, 4, 0, 1, 0)
RootOf(cells) == [i \in 1..RootSize |-> IF i <= Len(cells) THEN cells[i] ELSE ZeroCell]

ImageOf(image) ==
  IF image = "low" THEN Blank(2, LowClusters)
  ELSE IF image = "high"
    THEN [Blank(LOW_BYTE_SPAN, HighClusters) EXCEPT
            !.root = RootOf(EntryBytes(DirA(0)))]
  ELSE [Blank(2, LowClusters) EXCEPT
          !.fat = [k \in DOMAIN @ |-> IF k \in {2, 3, 4} THEN CLUSTER_EOC_12 ELSE @[k]],
          !.data = [k \in DOMAIN @ |->
                      IF k = 2 THEN UnitOf(EntryBytes(FileA))
                      ELSE IF k \in {3, 4} THEN UnitOf(<<DataCell(1)>>)
                      ELSE @[k]],
          !.root = RootOf(EntryBytes(DirA(2)) \o EntryBytes(FileLong))]

\* the paths the calls are made with: realpaths as sequences of parts; the
\* paths below the root directory run through directories named "A"
RECURSIVE PathsOfLen(_)
PathsOfLen(n) ==
  IF n = 1 THEN {<<p>> : p \in Parts}
  ELSE {<<"A">> \o q : q \in {r \in PathsOfLen(n - 1) : \A i \in 1..Len(r) : r[i] = "A"}}
Paths == UNION {PathsOfLen(n) : n \in 1..MaxDepth}

\* what writefd is called with
Buffers == {<<DataCell(1)>>, [i \in 1..(ClusterCells + 1) |-> DataCell(2)]}

Init ==
  /\ LockIdle
  /\ FatIdle
  /\ TableIdle
  /\ writable \in BOOLEAN
  /\ now \in 0..MaxTime
  /\ \E image \in Images :
       /\ fat = ImageOf(image).fat
       /\ data = ImageOf(image).data
       /\ rootdir = ImageOf(image).root
  /\ cache = NotParsed
  /\ fd_table = <<>>
  /\ streams = <<>>
  /\ cwd = <<>>
  /\ result = [op |-> "init", st |-> "ok"]
  /\ oplog = <<>>
  /\ steps = 0

\* the call returns (or raises): the world it leaves behind
Leaves(W) ==
  /\ fat' = W.fat
  /\ data' = W.data
  /\ rootdir' = W.root
  /\ cache' = W.cache
  /\ oplog' = W.log
  /\ steps' = steps + 1

OpenFd ==
  /\ steps < MaxSteps
  /\ Cardinality(DOMAIN fd_table) < MaxFds
  /\ \E path \in Paths, flags \in Flags :
       LET r == openfd(World, fd_table, streams, path, flags) IN
       /\ Leaves(r.W)
       /\ fd_table' = r.tbl
       /\ streams' = r.strs
       /\ result' = [op |-> "openfd", path |-> path, flags |-> flags,
                     st |-> r.st, fd |-> r.fd]
  /\ UNCHANGED <<writable, now, cwd, lockVars, fatVars, tableVars>>

CloseFd ==
  /\ steps < MaxSteps
  /\ \E fd \in DOMAIN fd_table :
       LET r == closefd(World, fd_table, streams, fd) IN
       /\ Leaves(r.W)
       /\ fd_table' = r.tbl
       /\ streams' = r.strs
       /\ result' = [op |-> "closefd", fd |-> fd, path |-> fd_table[fd].path,
                     stream |-> fd_table[fd].stream, st |-> r.st,
                     closed |-> r.closed]
  /\ UNCHANGED <<writable, now, cwd, lockVars, fatVars, tableVars>>

WriteFd ==
  /\ steps < MaxSteps
  /\ \E fd \in DOMAIN fd_table, b \in Buffers :
       LET r == writefd(World, fd_table, streams, fd, b) IN
       /\ Leaves(r.W)
       /\ streams' = r.strs
       /\ result' = [op |-> "writefd", fd |-> fd, b |-> b, st |-> r.st]
  /\ UNCHANGED <<writable, now, cwd, fd_table, lockVars, fatVars, tableVars>>

Mkdir ==
  /\ steps < MaxSteps
  /\ \E path \in Paths \cup {<<>>} :
       LET r == mkdir(World, path) IN
       /\ Leaves(r.W)
       /\ result' = [op |-> "mkdir", path |-> path, st |-> r.st]
  /\ UNCHANGED <<writable, now, cwd, fd_table, streams, lockVars, fatVars, tableVars>>

Rmdir ==
  /\ steps < MaxSteps
  /\ \E path \in Paths :
       LET r == rmdir(World, path) IN
       /\ Leaves(r.W)
       /\ result' = [op |-> "rmdir", path |-> path, st |-> r.st]
  /\ UNCHANGED <<writable, now, cwd, fd_table, streams, lockVars, fatVars, tableVars>>

Unlink ==
  /\ steps < MaxSteps
  /\ \E path \in Paths :
       LET r == unlink(World, path) IN
       /\ Leaves(r.W)
       /\ result' = [op |-> "unlink", path |-> path, st |-> r.st]
  /\ UNCHANGED <<writable, now, cwd, fd_table, streams, lockVars, fatVars, tableVars>>

\* rename(src, dst) and replace(src, dst)
Move ==
  /\ steps < MaxSteps
  /\ \E src \in Paths, dst \in Paths, replace \in BOOLEAN :
       LET r == move(World, src, dst, replace) IN
       /\ Leaves(r.W)
       /\ result' = [op |-> IF replace THEN "replace" ELSE "rename",
                     path |-> src, dst |-> dst, st |-> r.st]
  /\ UNCHANGED <<writable, now, cwd, fd_table, streams, lockVars, fatVars, tableVars>>

\* a new FileSystem object is constructed on the volume
Reload ==
  /\ steps < MaxSteps
  /\ cache' = NotParsed
  /\ fd_table' = <<>>
  /\ streams' = <<>>
  /\ cwd' = <<>>
  /\ result' = [op |-> "load", st |-> "ok"]
  /\ oplog' = <<>>
  /\ steps' = steps + 1
  /\ UNCHANGED <<writable, now, fat, data, rootdir, lockVars, fatVars, tableVars>>

Next ==
  \/ OpenFd
  \/ CloseFd
  \/ WriteFd
  \/ Mkdir
  \/ Rmdir
  \/ Unlink
  \/ Move
  \/ Reload

Spec == Init /\ [][Next]_vars

(***************************************************************************)
(* The locking protocol.  Threads call public methods of one FileSystem.   *)
(* A method wrapped by `locked` runs its body inside "with self._lock:";   *)
(* scandir is a generator that takes the lock for its set-up and for each  *)
(* next(children); realpath and getcwd take no lock.  threading.Lock is    *)
(* not reentrant.  The directory tree is reduced to the cached children    *)
(* list of the root directory, a list of directory names.                  *)
(***************************************************************************)
Names == {"A", "LongName"}
Dirs == {"/"} \cup Names
LockedMethods == {"chdir", "mkdir", "rmdir", "listdir"}

\* a lock that can be taken while it is held
LockFree_always(L) == TRUE
\* "with self._lock:" is entered when the lock is free
LockFree(L) == L = Unlocked

\* scandir keeping the lock across its yield
scandir_release_kept(L) == L
\* the lock as scandir leaves a "with self._lock:" block
scandir_release(L) == Unlocked

\* name in list, list.remove(name), list.append(name)
Has(list, name) == \E i \in 1..Len(list) : list[i] = name
Remove(list, name) ==
  LET i == CHOOSE j \in 1..Len(list) :
             list[j] = name /\ \A k \in 1..(j - 1) : list[k] # name
  IN  [k \in 1..(Len(list) - 1) |-> IF k < i THEN list[k] ELSE list[k + 1]]

\* the list the generator of _get_children iterates for a directory
Children(dir) == IF dir = "/" THEN rootkids ELSE <<>>
\* the directory exists: _find_node_or_root and _check_directory pass
IsDir(dir) == dir = "/" \/ Has(rootkids, dir)

InitLock ==
  /\ writable = TRUE
  /\ now = 0
  /\ fat = ImageOf("low").fat
  /\ data = ImageOf("low").data
  /\ rootdir = ImageOf("low").root
  /\ cache = NotParsed
  /\ fd_table = <<>>
  /\ streams = <<>>
  /\ cwd = <<>>
  /\ result = [op |-> "init", st |-> "ok"]
  /\ oplog = <<>>
  /\ steps = 0
  /\ lock = Unlocked
  /\ pc = [t \in Threads |-> "idle"]
  /\ call = [t \in Threads |-> NoCall]
  /\ gen = [t \in Threads |-> NoGen]
  /\ rootkids = <<"A">>
  /\ seen = [t \in Threads |-> <<>>]
  /\ FatIdle
  /\ TableIdle

\* a thread calls a method wrapped by `locked`
CallLocked(t) ==
  /\ steps < MaxCalls
  /\ pc[t] = "idle"
  /\ \E m \in LockedMethods, name \in Dirs :
       call' = [call EXCEPT ![t] = [m |-> m, name |-> name]]
  /\ pc' = [pc EXCEPT ![t] = "wait"]
  /\ steps' = steps + 1
  /\ UNCHANGED <<fsVars, fatVars, tableVars, cwd, lock, gen, rootkids, seen>>

\* "with self._lock:" takes the lock
Acquire(t) ==
  /\ pc[t] = "wait"
  /\ LockFree(lock)
  /\ lock' = t
  /\ pc' = [pc EXCEPT ![t] = "in"]
  /\ UNCHANGED <<fsVars, fatVars, tableVars, cwd, steps, call, gen, rootkids, seen>>

\* the body of chdir, mkdir, rmdir, listdir
Body(t) ==
  /\ pc[t] = "in"
  /\ call[t].m \in LockedMethods
  /\ LET m == call[t].m
         name == call[t].name
     IN  /\ cwd' = IF m = "chdir" /\ IsDir(name)
                     THEN IF name = "/" THEN <<>> ELSE <<name>>
                     ELSE cwd
         /\ rootkids' = IF m = "mkdir" /\ ~IsDir(name)
                          THEN Append(rootkids, name)
                        ELSE IF m = "rmdir" /\ name # "/" /\ IsDir(name)
                          THEN Remove(rootkids, name)
                        ELSE rootkids
  /\ pc' = [pc EXCEPT ![t] = "out"]
  /\ UNCHANGED <<fsVars, fatVars, tableVars, steps, lock, call, gen, seen>>

\* locked_wrapper leaves its with block, by return or by an exception
Exit(t) ==
  /\ pc[t] = "out"
  /\ call[t].m \in LockedMethods
  /\ lock' = Unlocked
  /\ pc' = [pc EXCEPT ![t] = "idle"]
  /\ call' = [call EXCEPT ![t] = NoCall]
  /\ UNCHANGED <<fsVars, fatVars, tableVars, cwd, steps, gen, rootkids, seen>>

\* scandir(path) is called: a generator object, none of its code has run
CallScandir(t) ==
  /\ steps < MaxCalls
  /\ pc[t] = "idle"
  /\ gen[t].st = "none"
  /\ \E dir \in Dirs :
       gen' = [gen EXCEPT ![t] = [st |-> "created", dir |-> dir, pos |-> 0]]
  /\ steps' = steps + 1
  /\ UNCHANGED <<fsVars, fatVars, tableVars, cwd, lock, pc, call, rootkids, seen>>

\* the consumer calls next() on its generator
Resume(t) ==
  /\ pc[t] = "idle"
  /\ gen[t].st \in {"created", "yielded"}
  /\ pc' = [pc EXCEPT ![t] = "wait"]
  /\ call' = [call EXCEPT ![t] = [m |-> "scandir", name |-> gen[t].dir]]
  /\ UNCHANGED <<fsVars, fatVars, tableVars, cwd, steps, lock, gen, rootkids, seen>>

\* scandir's first with block: the node is found, children is created
ScanSetup(t) ==
  /\ pc[t] = "in"
  /\ call[t].m = "scandir"
  /\ gen[t].st = "created"
  /\ gen' = [gen EXCEPT ![t].st = IF IsDir(gen[t].dir) THEN "running"
                                   ELSE "raised"]
  /\ pc' = [pc EXCEPT ![t] = "out"]
  /\ UNCHANGED <<fsVars, fatVars, tableVars, cwd, steps, lock, call, rootkids, seen>>

\* child = next(children), inside "with self._lock:"
ScanNext(t) ==
  /\ pc[t] = "in"
  /\ call[t].m = "scandir"
  /\ gen[t].st \in {"running", "yielded"}
  /\ gen' = [gen EXCEPT ![t] =
               IF @.pos < Len(Children(@.dir))
                 THEN [@ EXCEPT !.st = "got", !.pos = @ + 1]
                 ELSE [@ EXCEPT !.st = "stop"]]
  /\ pc' = [pc EXCEPT ![t] = "out"]
  /\ UNCHANGED <<fsVars, fatVars, tableVars, cwd, steps, lock, call, rootkids, seen>>

\* scandir leaves a with block: on to the next one, to the yield, or out
ScanExit(t) ==
  /\ pc[t] = "out"
  /\ call[t].m = "scandir"
  /\ lock' = scandir_release(lock)
  /\ IF gen[t].st = "running"
       THEN /\ pc' = [pc EXCEPT ![t] = "wait"]
            /\ UNCHANGED <<call, gen>>
       ELSE /\ pc' = [pc EXCEPT ![t] = "idle"]
            /\ call' = [call EXCEPT ![t] = NoCall]
            /\ gen' = [gen EXCEPT ![t] = IF @.st = "got"
                                           THEN [@ EXCEPT !.st = "yielded"]
                                           ELSE NoGen]
  /\ UNCHANGED <<fsVars, fatVars, tableVars, cwd, steps, rootkids, seen>>

\* getcwd() is entered
Getcwd(t) ==
  /\ steps < MaxCalls
  /\ pc[t] = "idle"
  /\ pc' = [pc EXCEPT ![t] = "nolock"]
  /\ call' = [call EXCEPT ![t] = [m |-> "getcwd", name |-> "none"]]
  /\ steps' = steps + 1
  /\ UNCHANGED <<fsVars, fatVars, tableVars, cwd, lock, gen, rootkids, seen>>

\* realpath(path) is entered with a relative path
Realpath(t) ==
  /\ steps < MaxCalls
  /\ pc[t] = "idle"
  /\ \E name \in Names :
       call' = [call EXCEPT ![t] = [m |-> "realpath", name |-> name]]
  /\ pc' = [pc EXCEPT ![t] = "nolock"]
  /\ steps' = steps + 1
  /\ UNCHANGED <<fsVars, fatVars, tableVars, cwd, lock, gen, rootkids, seen>>

\* getcwd / realpath read self._cwd and return
ReadCwd(t) ==
  /\ pc[t] = "nolock"
  /\ seen' = [seen EXCEPT ![t] = cwd]
  /\ pc' = [pc EXCEPT ![t] = "idle"]
  /\ call' = [call EXCEPT ![t] = NoCall]
  /\ UNCHANGED <<fsVars, fatVars, tableVars, cwd, steps, lock, gen, rootkids>>

NextLock ==
  \E t \in Threads :
    \/ CallLocked(t)
    \/ Acquire(t)
    \/ Body(t)
    \/ Exit(t)
    \/ CallScandir(t)
    \/ Resume(t)
    \/ ScanSetup(t)
    \/ ScanNext(t)
    \/ ScanExit(t)
    \/ Getcwd(t)
    \/ Realpath(t)
    \/ ReadCwd(t)

SpecLock == InitLock /\ [][NextLock]_vars

(***************************************************************************)
(* The FAT region, byte by byte.  A Fat object F = [disk, buf, type, main] *)
(* reads and writes whole sectors of the volume through a buffer of one    *)
(* sector (two for FAT12).  Each operator returns [st, F] and more.        *)
(***************************************************************************)
FatTypes == {12, 16, 32}
VolumeSectors == ReservedSectors + FatCopies * FatSectors + TailSectors
\* fat_starts[i]
FatStart(i) == ReservedSectors + i * FatSectors
\* entries per FAT (total_clusters + 2): as many as the FAT has room for
Entries(type) == (FatSectors * SectorBytes * 8) \div type
CLUSTER_EOC(type) ==
  IF type = 12 THEN CLUSTER_EOC_12
  ELSE IF type = 16 THEN CLUSTER_EOC_16 ELSE CLUSTER_EOC_32

BAD_CLUSTER(type) == CLUSTER_EOC(type) - 8

\* Volume.read_at(pos, size): size sectors from sector pos
ReadAt(d, pos, size) ==
  IF pos < 0 \/ pos >= VolumeSectors \/ size > VolumeSectors - pos
    THEN [st |-> "ValueError", b |-> <<>>]
    ELSE [st |-> "ok",
          b |-> SubSeq(d, pos * SectorBytes + 1, (pos + size) * SectorBytes)]

\* Volume.write_at(pos, b)
WriteAt(d, pos, b) ==
  LET sectors_to_write == (Len(b) - 1) \div SectorBytes + 1 IN
  IF pos < 0 \/ pos >= VolumeSectors \/ sectors_to_write > VolumeSectors - pos
    THEN [st |-> "ValueError", disk |-> d]
    ELSE [st |-> "ok",
          disk |-> [i \in 1..Len(d) |->
                      IF /\ i > pos * SectorBytes
                         /\ i <= pos * SectorBytes + Len(b)
                        THEN b[i - pos * SectorBytes]
                        ELSE d[i]]]

\* int.to_bytes(count, "little") and int.from_bytes(b, "little")
RECURSIVE ToBytes(_, _)
ToBytes(value, count) ==
  IF count = 0 THEN <<>>
  ELSE <<value % 256>> \o ToBytes(value \div 256, count - 1)
RECURSIVE FromBytes(_)
FromBytes(b) ==
  IF b = <<>> THEN 0 ELSE Head(b) + 256 * FromBytes(Tail(b))

\* Fat.flush: the buffer goes to every FAT, at the buffer's sector offset
RECURSIVE FlushTo(_, _, _)
FlushTo(d, buf, i) ==
  IF i = FatCopies THEN [st |-> "ok", disk |-> d]
  ELSE LET w == WriteAt(d, FatStart(i) + buf.offset, buf.bytes) IN
       IF w.st # "ok" THEN w ELSE FlushTo(w.disk, buf, i + 1)

Fat_flush(F) ==
  IF ~F.buf.altered THEN [st |-> "ok", F |-> F]
  ELSE LET w == FlushTo(F.disk, F.buf, 0) IN
       IF w.st # "ok" THEN [st |-> w.st, F |-> [F EXCEPT !.disk = w.disk]]
       ELSE [st |-> "ok",
             F |-> [F EXCEPT !.disk = w.disk, !.buf.altered = FALSE]]

\* Fat._ensure_buffer(sector_offset), after its flush: the sectors are
\* read into the buffer
ReadBuffer(F, sector_offset) ==
  LET r == ReadAt(F.disk, FatStart(F.main) + sector_offset,
                  IF F.type = 12 THEN 2 ELSE 1)
  IN  IF r.st # "ok" THEN [st |-> r.st, F |-> F]
      ELSE [st |-> "ok",
            F |-> [F EXCEPT !.buf = [bytes |-> r.b,
                                     offset |-> sector_offset,
                                     altered |-> FALSE]]]

AfterFlush(fl, sector_offset) ==
  IF fl.st # "ok" THEN fl ELSE ReadBuffer(fl.F, sector_offset)

\* Fat._ensure_buffer(sector_offset)
Fat_ensure_buffer(F, sector_offset) ==
  IF sector_offset >= FatSectors THEN [st |-> "ValueError", F |-> F]
  ELSE IF F.buf.offset = sector_offset THEN [st |-> "ok", F |-> F]
  ELSE AfterFlush(Fat_flush(F), sector_offset)

\* Fat._get_io_info(key)
Fat_get_io_info(type, key) ==
  LET bytes_offset == IF type = 12 THEN key + key \div 2
                      ELSE IF type = 16 THEN key * 2 ELSE key * 4
  IN  [sector_offset |-> bytes_offset \div SectorBytes,
       bytes_offset_sector |-> bytes_offset % SectorBytes,
       byte_count |-> IF type = 32 THEN 4 ELSE 2]

\* buffer[a : a + count]
Slice(b, a, count) ==
  SubSeq(b, a + 1, IF a + count <= Len(b) THEN a + count ELSE Len(b))

\* the value Fat.__getitem__ makes of the bytes of an entry.  For FAT32 the
\* mask 0x0FFFFFFF is applied to the top byte before the number is formed.
Decode(type, key, value_bytes) ==
  IF type = 12
    THEN IF key % 2 = 1 THEN FromBytes(value_bytes) \div 16
         ELSE FromBytes(value_bytes) % 4096
  ELSE IF type = 32 THEN FromBytes([value_bytes EXCEPT ![4] = @ % 16])
  ELSE FromBytes(value_bytes)

\* Fat.__getitem__(key), once the buffer holds the entry's sector
GetFrom(e, io, key) ==
  IF e.st # "ok" THEN [st |-> e.st, value |-> -1, F |-> e.F]
  ELSE [st |-> "ok", F |-> e.F,
        value |-> Decode(e.F.type, key,
                         Slice(e.F.buf.bytes, io.bytes_offset_sector,
                               io.byte_count))]

\* Fat.__getitem__(key)
Fat_getitem(F, key) ==
  IF key < 0 \/ key > Entries(F.type) - 1
    THEN [st |-> "IndexError", value |-> -1, F |-> F]
  ELSE GetFrom(Fat_ensure_buffer(F, Fat_get_io_info(F.type, key).sector_offset),
               Fat_get_io_info(F.type, key), key)

\* the bytes Fat.__setitem__ stores for a value.  For FAT32 the four
\* reserved high bits of the old value are kept in the top byte.
Encode(type, key, value, old_value_bytes) ==
  IF type = 12
    THEN ToBytes(IF key % 2 = 1
                   THEN (FromBytes(old_value_bytes) % 16) + value * 16
                   ELSE (FromBytes(old_value_bytes) \div 4096) * 4096
                          + (value % 4096),
                 2)
  ELSE IF type = 32
    THEN [ToBytes(value, 4) EXCEPT ![4] = @ + (old_value_bytes[4] \div 16) * 16]
  ELSE ToBytes(value, 2)

\* buffer[a : a + count] = value_bytes
Patch(b, a, value_bytes) ==
  [i \in 1..Len(b) |->
     IF i > a /\ i <= a + Len(value_bytes) THEN value_bytes[i - a] ELSE b[i]]

\* Fat.__setitem__(key, value), once the buffer holds the entry's sector
SetIn(e, io, key, value) ==
  IF e.st # "ok" THEN [st |-> e.st, F |-> e.F]
  ELSE [st |-> "ok",
        F |-> [e.F EXCEPT
                 !.buf.bytes =
                   Patch(@, io.bytes_offset_sector,
                         Encode(e.F.type, key, value,
                                Slice(@, io.bytes_offset_sector,
                                      io.byte_count))),
                 !.buf.altered = TRUE]]

\* Fat.__setitem__(key, value) on a writable volume
Fat_setitem(F, key, value) ==
  IF key < 0 \/ key > Entries(F.type) - 1 THEN [st |-> "IndexError", F |-> F]
  ELSE IF value < 0 \/ value > CLUSTER_EOC(F.type)
    THEN [st |-> "ValueError", F |-> F]
  ELSE SetIn(Fat_ensure_buffer(F, Fat_get_io_info(F.type, key).sector_offset),
             Fat_get_io_info(F.type, key), key, value)

\* Fat.__init__: the media descriptor in entry 0 is checked
MediaCheck(g) ==
  IF g.st # "ok" THEN [st |-> g.st, F |-> g.F]
  ELSE IF g.value % 256 # MEDIA_TYPE THEN [st |-> "ValidationError", F |-> g.F]
  ELSE [st |-> "ok", F |-> g.F]

FirstRead(e) ==
  IF e.st # "ok" THEN e ELSE MediaCheck(Fat_getitem(e.F, 0))

\* Fat.__init__(volume, boot_sector, main_fat)
Fat_init(d, type, main) ==
  IF Entries(type) > BAD_CLUSTER(type) + 1
    THEN [st |-> "ValueError", F |-> [disk |-> d, buf |-> NoBuffer,
                                      type |-> type, main |-> main]]
  ELSE IF FatSectors * SectorBytes < (Entries(type) * type - 1) \div 8 + 1
    THEN [st |-> "ValueError", F |-> [disk |-> d, buf |-> NoBuffer,
                                      type |-> type, main |-> main]]
  ELSE IF main < 0 \/ main >= FatCopies
    THEN [st |-> "ValueError", F |-> [disk |-> d, buf |-> NoBuffer,
                                      type |-> type, main |-> main]]
  ELSE FirstRead(Fat_ensure_buffer([disk |-> d, buf |-> NoBuffer,
                                    type |-> type, main |-> main], 0))

\* a freshly formatted FAT: entry 0 holds the media descriptor, entry 1
\* the end-of-chain mark, every other entry is empty
FreshFat(type) ==
  LET head == IF type = 12 THEN <<MEDIA_TYPE, 255, 255>>
              ELSE IF type = 16 THEN <<MEDIA_TYPE, 255, 255, 255>>
              ELSE <<MEDIA_TYPE, 255, 255, 15, 255, 255, 255, 15>>
  IN  [i \in 1..(FatSectors * SectorBytes) |->
         IF i <= Len(head) THEN head[i] ELSE 0]

\* the volume: reserved sectors, the FATs, the sectors behind them (the
\* root directory region of FAT12/16, the data region of FAT32), empty
FreshDisk(type) ==
  [i \in 1..(VolumeSectors * SectorBytes) |->
     LET j == i - ReservedSectors * SectorBytes IN
     IF j >= 1 /\ j <= FatCopies * FatSectors * SectorBytes
       THEN FreshFat(type)[((j - 1) % (FatSectors * SectorBytes)) + 1]
       ELSE 0]

\* values stored in FAT entries: empty, a cluster number whose hex digits
\* all differ, end of chain
Values(type) ==
  {CLUSTER_EMPTY,
   IF type = 12 THEN 2748 ELSE IF type = 16 THEN 43981 ELSE 180150001,
   CLUSTER_EOC(type)}

CurFat == [disk |-> disk, buf |-> buffer, type |-> fat_type, main |-> main_fat]
fsRest == <<writable, now, fat, data, rootdir, cache, fd_table, streams, oplog>>

InitFat ==
  /\ writable = TRUE
  /\ now = 0
  /\ fat = ImageOf("low").fat
  /\ data = ImageOf("low").data
  /\ rootdir = ImageOf("low").root
  /\ cache = NotParsed
  /\ fd_table = <<>>
  /\ streams = <<>>
  /\ cwd = <<>>
  /\ result = [op |-> "init", st |-> "ok"]
  /\ oplog = <<>>
  /\ steps = 0
  /\ LockIdle
  /\ TableIdle
  /\ fat_type \in FatTypes
  /\ main_fat \in 0..(FatCopies - 1)
  /\ disk = FreshDisk(fat_type)
  /\ buffer = Fat_init(disk, fat_type, main_fat).F.buf
  /\ fat_open = TRUE

\* fat[key] = value
SetItem ==
  /\ steps < MaxFatCalls
  /\ fat_open
  /\ \E key \in 0..(Entries(fat_type) - 1), value \in Values(fat_type) :
       LET r == Fat_setitem(CurFat, key, value) IN
       /\ disk' = r.F.disk
       /\ buffer' = r.F.buf
       /\ result' = [op |-> "setitem", key |-> key, value |-> value,
                     st |-> r.st]
  /\ steps' = steps + 1
  /\ UNCHANGED <<fsRest, cwd, lockVars, tableVars, fat_type, main_fat, fat_open>>

\* fat[key]
GetItem ==
  /\ steps < MaxFatCalls
  /\ fat_open
  /\ \E key \in 0..(Entries(fat_type) - 1) :
       LET r == Fat_getitem(CurFat, key) IN
       /\ disk' = r.F.disk
       /\ buffer' = r.F.buf
       /\ result' = [op |-> "getitem", key |-> key, value |-> r.value,
                     st |-> r.st]
  /\ steps' = steps + 1
  /\ UNCHANGED <<fsRest, cwd, lockVars, tableVars, fat_type, main_fat, fat_open>>

\* fat.flush()
FlushFat ==
  /\ steps < MaxFatCalls
  /\ fat_open
  /\ LET r == Fat_flush(CurFat) IN
       /\ disk' = r.F.disk
       /\ buffer' = r.F.buf
       /\ result' = [op |-> "flush", st |-> r.st]
  /\ steps' = steps + 1
  /\ UNCHANGED <<fsRest, cwd, lockVars, tableVars, fat_type, main_fat, fat_open>>

\* a new Fat is constructed on the volume, with any FAT as the main FAT
Reopen ==
  /\ steps < MaxFatCalls
  /\ \E main \in 0..(FatCopies - 1) :
       LET r == Fat_init(disk, fat_type, main) IN
       /\ main_fat' = main
       /\ disk' = r.F.disk
       /\ buffer' = r.F.buf
       /\ fat_open' = (r.st = "ok")
       /\ result' = [op |-> "reopen", main |-> main, st |-> r.st]
  /\ steps' = steps + 1
  /\ UNCHANGED <<fsRest, cwd, lockVars, tableVars, fat_type>>

NextFat ==
  \/ SetItem
  \/ GetItem
  \/ FlushFat
  \/ Reopen

SpecFat == InitFat /\ [][NextFat]_vars

(***************************************************************************)
(* Fat.get_chain on every table of a small volume: the table is whatever   *)
(* the volume holds when the FileSystem is opened on it.                   *)
(***************************************************************************)
ChainClusters == 3         \* total_clusters of the tables get_chain walks

\* what an entry of such a table holds: free, reserved, a link to a cluster
\* or to the key behind the last one, bad cluster, end of chain
ChainValues ==
  {CLUSTER_EMPTY, CLUSTER_RESERVED, BAD_CLUSTER_12, CLUSTER_EOC_12}
    \cup 2..(ChainClusters + 2)
ChainTables ==
  {[k \in 0..(ChainClusters + 1) |->
      IF k < 2 THEN BlankFat(2, ChainClusters)[k] ELSE g[k]] :
     g \in [2..(ChainClusters + 1) -> ChainValues]}
StartClusters == 0..(ChainClusters + 2) \cup {BAD_CLUSTER_12, CLUSTER_EOC_12}

InitChain ==
  /\ LockIdle
  /\ FatIdle
  /\ TableIdle
  /\ writable = TRUE
  /\ now = 0
  /\ fat \in ChainTables
  /\ data = BlankData(2, ChainClusters)
  /\ rootdir = BlankRoot
  /\ cache = NotParsed
  /\ fd_table = <<>>
  /\ streams = <<>>
  /\ cwd = <<>>
  /\ result = [op |-> "init", st |-> "ok"]
  /\ oplog = <<>>
  /\ steps = 0

\* list(fs.fat.get_chain(start_cluster)), as DataIO.__init__ collects it
GetChain ==
  /\ \E start \in StartClusters :
       result' = [op |-> "get_chain", start |-> start,
                  st |-> get_chain(fat, start).st,
                  chain |-> get_chain(fat, start).chain]
  /\ UNCHANGED <<writable, now, fat, data, rootdir, cache, fd_table, streams,
                 oplog, cwd, steps, lockVars, fatVars, tableVars>>

NextChain == GetChain

SpecChain == InitChain /\ [][NextChain]_vars

(***************************************************************************)
(* One DataIO stream of a regular file on a volume some of whose clusters  *)
(* are taken by other files: truncate and write reach _allocate and _free. *)
(***************************************************************************)
MaxGrow == 5               \* largest size, in cells, a stream is grown to

\* a table in which the clusters of `taken` are one-cluster chains
TakenFat(taken) ==
  [k \in DOMAIN BlankFat(2, LowClusters) |->
     IF k \in taken THEN CLUSTER_EOC_12 ELSE BlankFat(2, LowClusters)[k]]

\* the entry of a file that was created and never written
EmptyFile == MkEntry("A", "A", FALSE, FALSE, 0, 0, 0, 0)

InitStream ==
  /\ LockIdle
  /\ FatIdle
  /\ TableIdle
  /\ writable = TRUE
  /\ now = 0
  /\ \E taken \in SUBSET (2..(LowClusters + 1)) : fat = TakenFat(taken)
  /\ data = BlankData(2, LowClusters)
  /\ rootdir = BlankRoot
  /\ cache = NotParsed
  /\ fd_table = <<>>
  /\ streams = <<DataIOInit(World, EmptyFile).S>>
  /\ cwd = <<>>
  /\ result = [op |-> "init", st |-> "ok"]
  /\ oplog = <<>>
  /\ steps = 0

\* the call on the stream returns (or raises)
StreamLeaves(r) ==
  /\ fat' = r.W.fat
  /\ data' = r.W.data
  /\ oplog' = r.W.log
  /\ streams' = <<r.S>>

\* stream.truncate(size); before and was are fat.free_clusters() and the
\* size of the stream when the call is made
TruncateStream ==
  /\ \E size \in 0..MaxGrow :
       /\ StreamLeaves(Truncate(World, streams[1], size, now))
       /\ result' = [op |-> "truncate", size |-> size,
                     st |-> Truncate(World, streams[1], size, now).st,
                     before |-> free_clusters(fat), was |-> streams[1].size]
  /\ UNCHANGED <<writable, now, rootdir, cache, fd_table, cwd, steps,
                 lockVars, fatVars, tableVars>>

\* stream.seek(0); stream.write(b)
WriteStream ==
  /\ \E n \in 1..MaxGrow :
       /\ StreamLeaves(Write(World, [streams[1] EXCEPT !.pos = 0],
                             [i \in 1..n |-> DataCell(1)], now))
       /\ result' = [op |-> "write", size |-> n,
                     st |-> Write(World, [streams[1] EXCEPT !.pos = 0],
                                  [i \in 1..n |-> DataCell(1)], now).st,
                     before |-> free_clusters(fat), was |-> streams[1].size]
  /\ UNCHANGED <<writable, now, rootdir, cache, fd_table, cwd, steps,
                 lockVars, fatVars, tableVars>>

NextStream ==
  \/ TruncateStream
  \/ WriteStream

SpecStream == InitStream /\ [][NextStream]_vars

(***************************************************************************)
(* rename and replace on a volume that holds a tree: the directory /A      *)
(* with the directory /A/A and the file /A/A/A in it, and the directory     *)
(* /LongName with the file /LongName/A.                                     *)
(***************************************************************************)
TreeClusters == 7          \* data clusters of the volume that holds the tree
MoveSteps == 3             \* public calls per behaviour on the tree

DirAt(name, dos, lfn, cluster) ==
  MkEntry(name, dos, lfn, TRUE, cluster, 0, ClusterCells, 0)
FileAt(cluster) == MkEntry("A", "A", FALSE, FALSE, cluster, 0, 1, 0)

TreeImage ==
  [Blank(2, TreeClusters) EXCEPT
     !.fat = [k \in DOMAIN @ |-> IF k \in 2..6 THEN CLUSTER_EOC_12 ELSE @[k]],
     !.data = [k \in DOMAIN @ |->
                 IF k = 2 THEN UnitOf(EntryBytes(DirAt("A", "A", FALSE, 3)))
                 ELSE IF k = 3 THEN UnitOf(EntryBytes(FileAt(4)))
                 ELSE IF k = 4 THEN UnitOf(<<DataCell(1)>>)
                 ELSE IF k = 5 THEN UnitOf(EntryBytes(FileAt(6)))
                 ELSE IF k = 6 THEN UnitOf(<<DataCell(2)>>)
                 ELSE @[k]],
     !.root = RootOf(EntryBytes(DirAt("A", "A", FALSE, 2))
                     \o EntryBytes(DirAt("LongName", Tilde(1), TRUE, 5)))]

\* a volume whose clusters lie beyond the low byte, as another FAT driver
\* leaves it: the directory /A (cluster 256) with the directory /A/A (257)
\* and the file /A/A/A (258) in it, and the empty directory /LongName
HighTreeImage ==
  [Blank(LOW_BYTE_SPAN, HighClusters) EXCEPT
     !.fat = [k \in DOMAIN @ |-> IF k >= LOW_BYTE_SPAN THEN CLUSTER_EOC_12 ELSE @[k]],
     !.data = [k \in DOMAIN @ |->
                 IF k = LOW_BYTE_SPAN
                   THEN UnitOf(EntryBytes(DirAt("A", "A", FALSE, LOW_BYTE_SPAN + 1)))
                 ELSE IF k = LOW_BYTE_SPAN + 1
                   THEN UnitOf(EntryBytes(FileAt(LOW_BYTE_SPAN + 2)))
                 ELSE UnitOf(<<DataCell(1)>>)],
     !.root = RootOf(EntryBytes(DirAt("A", "A", FALSE, LOW_BYTE_SPAN))
                     \o EntryBytes(MkEntry("LongName", Tilde(1), TRUE, TRUE,
                                           0, 0, 0, 0)))]

TreeImages == {TreeImage, HighTreeImage}

\* the paths rename, replace and listdir are called with
TreePaths ==
  {<<"A">>, <<"LongName">>, <<"A", "A">>, <<"A", "LongName">>,
   <<"LongName", "A">>, <<"LongName", "LongName">>, <<"A", "A", "A">>}

InitMove ==
  /\ LockIdle
  /\ FatIdle
  /\ TableIdle
  /\ writable = TRUE
  /\ now = 0
  /\ \E image \in TreeImages :
       /\ fat = image.fat
       /\ data = image.data
       /\ rootdir = image.root
  /\ cache = NotParsed
  /\ fd_table = <<>>
  /\ streams = <<>>
  /\ cwd = <<>>
  /\ result = [op |-> "init", st |-> "ok"]
  /\ oplog = <<>>
  /\ steps = 0

\* FileSystem.listdir(path): [st, W]
listdir(W, path) ==
  Bind(FindNodeOrRoot(W, path), LAMBDA f :
  IF f.st # "ok" THEN [st |-> f.st, W |-> f.W]
  ELSE IF path # <<>> /\ ~f.node.entry.dir THEN [st |-> "ENOTDIR", W |-> f.W]
  ELSE Bind(GetChildrenAll(f.W, f), LAMBDA g : [st |-> g.st, W |-> g.W]))

ListDir ==
  /\ steps < MoveSteps
  /\ \E path \in TreePaths \cup {<<>>} :
       /\ Leaves(listdir(World, path).W)
       /\ result' = [op |-> "listdir", path |-> path, st |-> listdir(World, path).st]
  /\ UNCHANGED <<writable, now, cwd, fd_table, streams, lockVars, fatVars, tableVars>>

MoveTree ==
  /\ steps < MoveSteps
  /\ \E src \in TreePaths, dst \in TreePaths, replace \in BOOLEAN :
       /\ Leaves(move(World, src, dst, replace).W)
       /\ result' = [op |-> IF replace THEN "replace" ELSE "rename",
                     path |-> src, dst |-> dst,
                     st |-> move(World, src, dst, replace).st]
  /\ UNCHANGED <<writable, now, cwd, fd_table, streams, lockVars, fatVars, tableVars>>

NextMove ==
  \/ ListDir
  \/ MoveTree

SpecMove == InitMove /\ [][NextMove]_vars

(***************************************************************************)
(* Disk and its partition tables: the MBR and the GPT codec.               *)
(*                                                                         *)
(* A sector of the medium is all zeroes, or holds an MBR (signature and    *)
(* four raw entries), a GPT header (its fields) or the first sector of a   *)
(* partition entry array (the non-empty prefix of its entries).  crc32 is  *)
(* taken as injective: the checksum of a value is the value.  A status is  *)
(* "ok" or the class of the exception raised; "ValidationError" is the     *)
(* class named ParseError in table/gpt.py.                                 *)
(***************************************************************************)
MIN_LSS == 512                  \* mbr.MIN_LSS, gpt.MIN_LSS
PARTITION_ENTRIES_COUNT == 4    \* entries of an MBR
PRIMARY_HEADER_LBA == 1
MIN_PARTITION_ENTRIES == 128
ENTRY_SIZE == 128               \* gpt.PartitionEntry.SIZE
MBR_SIZE == 512                 \* mbr.Table.SIZE
SIGNATURE == "55AA"             \* mbr.SIGNATURE
EFI_PART == "EFI PART"          \* gpt.SIGNATURE
PART_EMPTY == 0                 \* mbr.PartitionType.EMPTY
FAT32_LBA == 12                 \* mbr.PartitionType.FAT32_LBA
GPT_PROTECTIVE == 238           \* mbr.PartitionType.GPT_PROTECTIVE
UNUSED == "unused"              \* gpt.PartitionType.UNUSED
LINUX_DATA == "linux"           \* a GPT partition type other than UNUSED

MaxPower == 16             \* powers of two up to 2^MaxPower are told apart
TableSteps == 3            \* calls per behaviour on the disk

Zeroes == [kind |-> "zero"]
Garbage == <<[start_lba |-> 0, end_lba |-> 0, type |-> "garbage"]>>
SectorAt(M, lba) == IF lba \in DOMAIN M.sectors THEN M.sectors[lba] ELSE Zeroes
\* the medium after n sectors from lba on are overwritten by content
StoreAt(M, lba, n, content) ==
  [M EXCEPT !.sectors =
     [x \in ((DOMAIN M.sectors) \ (lba..(lba + n - 1))) \cup {lba} |->
        IF x = lba THEN content ELSE M.sectors[x]]]

is_power_of_two(value) == value \in {2^k : k \in 0..MaxPower}

\* Disk.read_at / Disk.write_at: whether the sector range lies on the disk
read_at(M, lss, pos, size) == pos * lss + size * lss <= M.size
write_at(M, lss, pos, bytes) == pos * lss + bytes <= M.size
\* a buffer of b bytes filled up with zeroes to whole sectors
Filled(b, lss) == ((b + lss - 1) \div lss) * lss

\* PartitionEntry.end_lba of an MBR entry (start and length) or a GPT entry
end_lba(p) ==
  IF "length_lba" \in DOMAIN p THEN p.start_lba + p.length_lba - 1
  ELSE p.end_lba

\* sorted(partitions, key=lambda p: p.start_lba), a stable sort
RECURSIVE InsertByStart(_, _)
InsertByStart(p, s) ==
  IF s = <<>> THEN <<p>>
  ELSE IF p.start_lba < Head(s).start_lba THEN <<p>> \o s
  ELSE <<Head(s)>> \o InsertByStart(p, Tail(s))

RECURSIVE SortedByStart(_)
SortedByStart(s) ==
  IF s = <<>> THEN <<>>
  ELSE InsertByStart(s[Len(s)], SortedByStart(SubSeq(s, 1, Len(s) - 1)))

RECURSIVE Overlapping(_, _)
Overlapping(sorted, prev_partition_end_lba) ==
  IF sorted = <<>> THEN FALSE
  ELSE IF Head(sorted).start_lba <= prev_partition_end_lba THEN TRUE
  ELSE Overlapping(Tail(sorted), end_lba(Head(sorted)))

check_overlapping_never(partitions) == FALSE
\* TRUE when check_overlapping finds an overlap: it then raises BoundsError,
\* or emits BoundsWarning when called with warn=True
check_overlapping(partitions) == Overlapping(SortedByStart(partitions), 0)

\* TRUE when check_bounds finds the partition outside (min_lba, max_lba)
check_bounds(partition, min_lba, max_lba) ==
  partition.start_lba < min_lba \/ end_lba(partition) > max_lba

(* ------------------------------- MBR ---------------------------------- *)
MbrEntry(start_lba, length_lba, type) ==
  [start_lba |-> start_lba, length_lba |-> length_lba, type |-> type]
new_empty == MbrEntry(0, 0, PART_EMPTY)

\* mbr.PartitionEntry.new: TRUE when the arguments are accepted.  The disks
\* of the model have fewer than 2^32 sectors, so that the four-byte limit of
\* the two addresses never binds and is left out.
mbr_entry_new(start_lba, length_lba, type) ==
  /\ type # PART_EMPTY
  /\ 0 <= type /\ type < 256
  /\ 0 < start_lba
  /\ 0 < length_lba

\* mbr.PartitionEntry.from_bytes
mbr_entry_from_bytes(raw) ==
  IF raw.type = PART_EMPTY \/ raw.length_lba = 0
  THEN [st |-> "ok", entry |-> new_empty]
  ELSE IF raw.start_lba = 0
  THEN [st |-> "ValidationError", entry |-> new_empty]
  ELSE [st |-> "ok", entry |-> raw]

\* mbr.Table.__init__: overlapping partitions are warned about and kept
MbrTable(partitions) == [type |-> "MBR", partitions |-> partitions]

NotEmpty(p) == p.type # PART_EMPTY

\* mbr.Table.new
mbr_new(partitions) ==
  IF Len(partitions) > PARTITION_ENTRIES_COUNT
  THEN [st |-> "ValueError", table |-> NoTable]
  ELSE [st |-> "ok", table |-> MbrTable(SelectSeq(partitions, NotEmpty))]

Parsed(b) ==
  [i \in 1..PARTITION_ENTRIES_COUNT |-> mbr_entry_from_bytes(b.entries[i]).entry]

\* mbr.Table.from_bytes of a buffer of MBR_SIZE bytes
mbr_from_bytes(b) ==
  IF b.kind # "mbr" \/ b.signature # SIGNATURE
  THEN [st |-> "ValidationError", table |-> NoTable]
  ELSE IF \E i \in 1..PARTITION_ENTRIES_COUNT :
            mbr_entry_from_bytes(b.entries[i]).st # "ok"
  THEN [st |-> "ValidationError", table |-> NoTable]
  ELSE [st |-> "ok", table |-> MbrTable(SelectSeq(Parsed(b), NotEmpty))]

\* mbr.Table.from_disk
mbr_from_disk(M, lss) ==
  IF lss < MIN_LSS THEN [st |-> "ValueError", table |-> NoTable]
  ELSE IF ~read_at(M, lss, 0, 1) THEN [st |-> "ValueError", table |-> NoTable]
  ELSE mbr_from_bytes(SectorAt(M, 0))

\* mbr.Table.__bytes__: the partitions followed by empty entries
mbr_bytes(t) ==
  [kind |-> "mbr", signature |-> SIGNATURE,
   entries |-> [i \in 1..PARTITION_ENTRIES_COUNT |->
                  IF i <= Len(t.partitions) THEN t.partitions[i]
                  ELSE new_empty]]

\* mbr.Table._write_to_disk
mbr_write_to_disk(t, M, lss) ==
  IF lss < MIN_LSS THEN [st |-> "ValueError", M |-> M]
  ELSE IF check_overlapping(t.partitions) THEN [st |-> "BoundsError", M |-> M]
  ELSE IF \E i \in 1..Len(t.partitions) :
            check_bounds(t.partitions[i], 1, (M.size \div lss) - 1)
  THEN [st |-> "BoundsError", M |-> M]
  ELSE IF ~write_at(M, lss, 0, Filled(MBR_SIZE, lss))
  THEN [st |-> "ValueError", M |-> M]
  ELSE [st |-> "ok", M |-> StoreAt(M, 0, 1, mbr_bytes(t))]

(* ------------------------------- GPT ---------------------------------- *)
GptEntry(start_lba, last_lba, type) ==
  [start_lba |-> start_lba, end_lba |-> last_lba, type |-> type]

gpt_check_lss(lss) == lss >= MIN_LSS /\ is_power_of_two(lss)

partition_array_sectors(entries_count, entry_size, lss) ==
  ((entries_count * entry_size - 1) \div lss) + 1

partition_entries_written(entries_count, entry_size, lss) ==
  IF partition_array_sectors(entries_count, entry_size, lss) * (lss \div entry_size)
       > MIN_PARTITION_ENTRIES
  THEN partition_array_sectors(entries_count, entry_size, lss) * (lss \div entry_size)
  ELSE MIN_PARTITION_ENTRIES

\* Table.__init__: overlapping partitions are warned about and kept
GptTable(partitions, custom_mbr) ==
  [type |-> "GPT", partitions |-> partitions, custom_mbr |-> custom_mbr]

\* what the header CRC32 is taken over: every field but the checksum itself
HeaderCrc(h) ==
  <<h.signature, h.header_lba, h.alternate_header_lba, h.first_usable_lba,
    h.last_usable_lba, h.partition_array_lba, h.partition_entries_count,
    h.partition_entry_size, h.array_crc32>>

\* a header sector with a right checksum, as bytes_tuple packs it
Header(header_lba, alternate_lba, first_lba, last_lba, array_lba, count, size, crc) ==
  [kind |-> "header", signature |-> EFI_PART,
   header_lba |-> header_lba,
   alternate_header_lba |-> alternate_lba,
   first_usable_lba |-> first_lba,
   last_usable_lba |-> last_lba,
   partition_array_lba |-> array_lba,
   partition_entries_count |-> count,
   partition_entry_size |-> size,
   array_crc32 |-> crc,
   header_crc32 |->
     <<EFI_PART, header_lba, alternate_lba, first_lba, last_lba, array_lba,
       count, size, crc>>]

\* the LBA ordering _validate_header enforces, for a header whose array
\* takes n sectors
OrderedLbas(h, n) ==
  IF h.header_lba < h.alternate_header_lba
  THEN /\ h.header_lba < h.partition_array_lba
       /\ h.partition_array_lba < h.partition_array_lba + n - 1
       /\ h.partition_array_lba + n - 1 < h.first_usable_lba
       /\ h.first_usable_lba <= h.last_usable_lba
       /\ h.last_usable_lba < h.alternate_header_lba - n
       /\ h.alternate_header_lba - n < h.alternate_header_lba - 1
       /\ h.alternate_header_lba - 1 < h.alternate_header_lba
  ELSE /\ h.alternate_header_lba < h.alternate_header_lba + 1
       /\ h.alternate_header_lba + 1 < h.alternate_header_lba + n
       /\ h.alternate_header_lba + n < h.first_usable_lba
       /\ h.first_usable_lba <= h.last_usable_lba
       /\ h.last_usable_lba < h.partition_array_lba
       /\ h.partition_array_lba < h.partition_array_lba + n - 1
       /\ h.partition_array_lba + n - 1 < h.header_lba

\* Table._validate_header on one sector of lss bytes
validate_header(h, lss, expected_header_lba, expected_alternate_header_lba) ==
  IF h.kind # "header" THEN "ValidationError"
  ELSE IF h.signature # EFI_PART THEN "ValidationError"
  ELSE IF HeaderCrc(h) # h.header_crc32 THEN "ValidationError"
  ELSE IF h.header_lba # expected_header_lba THEN "ValidationError"
  ELSE IF h.alternate_header_lba # expected_alternate_header_lba
  THEN "ValidationError"
  ELSE IF h.partition_entry_size < ENTRY_SIZE THEN "ValidationError"
  ELSE IF ~is_power_of_two(h.partition_entry_size) THEN "ValidationError"
  ELSE IF h.partition_entries_count < MIN_PARTITION_ENTRIES
  THEN "ValidationError"
  ELSE IF lss % h.partition_entry_size # 0 THEN "ValueError"
  ELSE IF ~OrderedLbas(h, partition_array_sectors(h.partition_entries_count,
                                                  h.partition_entry_size, lss))
  THEN "ValidationError"
  ELSE "ok"

\* get_partition_array: the array a validated header points to
ArrayAt(M, lba, n) ==
  IF \E x \in DOMAIN M.sectors : lba < x /\ x <= lba + n - 1 THEN Garbage
  ELSE IF SectorAt(M, lba).kind = "array" THEN SectorAt(M, lba).entries
  ELSE IF SectorAt(M, lba).kind = "zero" THEN <<>>
  ELSE Garbage

\* validation of one copy: the header at lba, then the array it points to
validate_copy(M, lss, lba, alternate_lba) ==
  IF validate_header(SectorAt(M, lba), lss, lba, alternate_lba) # "ok"
  THEN validate_header(SectorAt(M, lba), lss, lba, alternate_lba)
  ELSE IF ~read_at(M, lss, SectorAt(M, lba).partition_array_lba,
                   partition_array_sectors(
                     SectorAt(M, lba).partition_entries_count,
                     SectorAt(M, lba).partition_entry_size, lss))
  THEN "ValueError"
  ELSE IF ArrayAt(M, SectorAt(M, lba).partition_array_lba,
                  partition_array_sectors(
                    SectorAt(M, lba).partition_entries_count,
                    SectorAt(M, lba).partition_entry_size, lss))
            # SectorAt(M, lba).array_crc32
  THEN "ValidationError"
  ELSE "ok"

\* gpt.PartitionEntry.from_bytes: the class of the exception, or "ok"
gpt_entry_from_bytes(raw) ==
  IF raw.type = UNUSED THEN "ok"
  ELSE IF raw.start_lba <= 2 THEN "ValidationError"
  ELSE IF raw.start_lba > raw.end_lba THEN "ValidationError"
  ELSE "ok"

Used(p) == p.type # UNUSED

\* the tail of Table.from_disk once the copy whose header is at lba validated
gpt_parse(M, lss, lba) ==
  Bind(ArrayAt(M, SectorAt(M, lba).partition_array_lba,
               partition_array_sectors(
                 SectorAt(M, lba).partition_entries_count,
                 SectorAt(M, lba).partition_entry_size, lss)),
       LAMBDA array :
    IF \E i \in 1..Len(array) : gpt_entry_from_bytes(array[i]) # "ok"
    THEN [st |-> "ValidationError", table |-> NoTable]
    ELSE Bind(mbr_from_disk(M, lss), LAMBDA m :
      IF m.st # "ok" THEN [st |-> m.st, table |-> NoTable]
      ELSE [st |-> "ok",
            table |-> GptTable(SelectSeq(array, Used),
                        IF /\ Len(m.table.partitions) = 1
                           /\ m.table.partitions[1].type = GPT_PROTECTIVE
                        THEN NoTable ELSE m.table)]))

\* gpt.Table.from_disk
gpt_from_disk(M, lss) ==
  IF ~gpt_check_lss(lss) THEN [st |-> "ValueError", table |-> NoTable]
  ELSE IF ~read_at(M, lss, PRIMARY_HEADER_LBA, 1)
  THEN [st |-> "ValueError", table |-> NoTable]
  ELSE Bind(validate_copy(M, lss, PRIMARY_HEADER_LBA, (M.size \div lss) - 1),
            LAMBDA primary :
    IF primary = "ok" THEN gpt_parse(M, lss, PRIMARY_HEADER_LBA)
    ELSE IF primary # "ValidationError"
    THEN [st |-> primary, table |-> NoTable]
    ELSE Bind(validate_copy(M, lss, (M.size \div lss) - 1, PRIMARY_HEADER_LBA),
              LAMBDA backup :
      IF backup = "ok" THEN gpt_parse(M, lss, (M.size \div lss) - 1)
      ELSE [st |-> backup, table |-> NoTable]))

\* gpt.Table.usable_lba
first_usable(t, lss) ==
  PRIMARY_HEADER_LBA
    + partition_array_sectors(
        partition_entries_written(Len(t.partitions), ENTRY_SIZE, lss),
        ENTRY_SIZE, lss) + 1
last_usable(t, M, lss) ==
  (M.size \div lss) - 1
    - partition_array_sectors(
        partition_entries_written(Len(t.partitions), ENTRY_SIZE, lss),
        ENTRY_SIZE, lss) - 1

\* the writes of a call, in order, until one lies outside the disk
RECURSIVE WriteAll(_, _, _)
WriteAll(M, lss, writes) ==
  IF writes = <<>> THEN [st |-> "ok", M |-> M]
  ELSE IF ~write_at(M, lss, Head(writes).lba, Head(writes).n * lss)
  THEN [st |-> "ValueError", M |-> M]
  ELSE WriteAll(StoreAt(M, Head(writes).lba, Head(writes).n,
                        Head(writes).content), lss, Tail(writes))

\* the MBR a GPT is written with: the custom one, or the protective one
ProtectiveMbr(t, M, lss) ==
  IF t.custom_mbr # NoTable THEN t.custom_mbr
  ELSE MbrTable(<<MbrEntry(1, (M.size \div lss) - 1, GPT_PROTECTIVE)>>)

\* the sectors gpt.Table._write_to_disk writes, n the sectors of the array
GptWrites(t, M, lss, n, last) ==
  << [lba |-> 0, n |-> 1, content |-> mbr_bytes(ProtectiveMbr(t, M, lss))],
     [lba |-> PRIMARY_HEADER_LBA, n |-> 1,
      content |-> Header(PRIMARY_HEADER_LBA, last, first_usable(t, lss),
                         last_usable(t, M, lss), PRIMARY_HEADER_LBA + 1,
                         partition_entries_written(Len(t.partitions),
                                                   ENTRY_SIZE, lss),
                         ENTRY_SIZE, t.partitions)],
     [lba |-> PRIMARY_HEADER_LBA + 1, n |-> n,
      content |-> [kind |-> "array", entries |-> t.partitions]],
     [lba |-> last - n, n |-> n,
      content |-> [kind |-> "array", entries |-> t.partitions]],
     [lba |-> last, n |-> 1,
      content |-> Header(last, PRIMARY_HEADER_LBA, first_usable(t, lss),
                         last_usable(t, M, lss), last - n,
                         partition_entries_written(Len(t.partitions),
                                                   ENTRY_SIZE, lss),
                         ENTRY_SIZE, t.partitions)] >>

\* gpt.Table._write_to_disk, with the checks of bytes_tuple
gpt_write_to_disk(t, M, lss) ==
  IF ~gpt_check_lss(lss) THEN [st |-> "ValueError", M |-> M]
  ELSE IF check_overlapping(t.partitions) THEN [st |-> "BoundsError", M |-> M]
  ELSE IF \E i \in 1..Len(t.partitions) :
            check_bounds(t.partitions[i], first_usable(t, lss),
                         last_usable(t, M, lss))
  THEN [st |-> "BoundsError", M |-> M]
  ELSE IF t.custom_mbr = NoTable
          /\ ~mbr_entry_new(1, (M.size \div lss) - 1, GPT_PROTECTIVE)
  THEN [st |-> "ValueError", M |-> M]
  ELSE WriteAll(M, lss,
         GptWrites(t, M, lss,
                   partition_array_sectors(
                     partition_entries_written(Len(t.partitions),
                                               ENTRY_SIZE, lss),
                     ENTRY_SIZE, lss),
                   (M.size \div lss) - 1))

write_to_disk(t, M, lss) ==
  IF t.type = "GPT" THEN gpt_write_to_disk(t, M, lss)
  ELSE mbr_write_to_disk(t, M, lss)

(* ------------------------------- Disk --------------------------------- *)
\* Disk.read_table: st "ok" with the table now stored, or what it raises
read_table(M, lss) ==
  Bind(gpt_from_disk(M, lss), LAMBDA g :
    IF g.st = "ok" THEN [st |-> "ok", table |-> g.table]
    ELSE IF g.st # "ValidationError" THEN [st |-> g.st, table |-> NoTable]
    ELSE Bind(mbr_from_disk(M, lss), LAMBDA m :
      IF m.st = "ok" THEN [st |-> "ok", table |-> m.table]
      ELSE IF m.st # "ValidationError" THEN [st |-> m.st, table |-> NoTable]
      ELSE [st |-> "ok", table |-> NoTable]))

SectorSizes == {256, 512, 4096, 16384}
DiskSizes == {100, 1024, 49152, 98304}
ZeroDisk(size) == [size |-> size, sectors |-> <<>>]

\* partition entries as PartitionEntry.new accepts them
MbrParts ==
  {MbrEntry(1, 4, FAT32_LBA), MbrEntry(4, 4, FAT32_LBA),
   MbrEntry(5, 3, FAT32_LBA), new_empty}
GptParts ==
  {GptEntry(6, 6, LINUX_DATA), GptEntry(34, 40, LINUX_DATA),
   GptEntry(40, 50, LINUX_DATA), GptEntry(41, 50, LINUX_DATA)}
Lists(S) == {<<>>} \cup {<<p>> : p \in S} \cup {<<p, q>> : p, q \in S}

\* first sectors as a disk may hold them
MbrSectors ==
  {[kind |-> "mbr", signature |-> sig,
    entries |-> <<p, q, new_empty, new_empty>>] :
     sig \in {SIGNATURE, "0000"},
     p \in {MbrEntry(1, 4, FAT32_LBA), MbrEntry(0, 4, FAT32_LBA),
            MbrEntry(1, 95, GPT_PROTECTIVE)},
     q \in {new_empty, MbrEntry(4, 4, FAT32_LBA), MbrEntry(5, 3, FAT32_LBA)}}

\* the first sector of a hybrid MBR: a partition next to the protective one
HybridSector ==
  [kind |-> "mbr", signature |-> SIGNATURE,
   entries |-> <<MbrEntry(1, 4, GPT_PROTECTIVE), MbrEntry(5, 3, FAT32_LBA),
                 new_empty, new_empty>>]

\* a first sector whose only partition has type 0xEE and ends at LBA 4
ShortProtective ==
  [kind |-> "mbr", signature |-> SIGNATURE,
   entries |-> <<MbrEntry(1, 4, GPT_PROTECTIVE), new_empty, new_empty,
                 new_empty>>]

\* a GPT stored without the checks of the codec
RawGpt(M, lss, partitions) ==
  WriteAll(M, lss,
    GptWrites(GptTable(partitions, NoTable), M, lss,
              partition_array_sectors(MIN_PARTITION_ENTRIES, ENTRY_SIZE, lss),
              (M.size \div lss) - 1)).M

\* the header at lba with another size of the entries, its checksum right
Resized(M, lba, size) ==
  StoreAt(M, lba, 1,
    Header(SectorAt(M, lba).header_lba, SectorAt(M, lba).alternate_header_lba,
           SectorAt(M, lba).first_usable_lba, SectorAt(M, lba).last_usable_lba,
           SectorAt(M, lba).partition_array_lba,
           SectorAt(M, lba).partition_entries_count, size,
           SectorAt(M, lba).array_crc32))

\* what a disk of these sizes may hold when it is opened
DiskImages(size, lss) ==
  IF lss > size THEN {ZeroDisk(size)}
  ELSE {ZeroDisk(size)}
    \cup {StoreAt(ZeroDisk(size), 0, 1, b) : b \in MbrSectors}
    \cup (IF lss < MIN_LSS \/ (size \div lss) < 12 THEN {}
          ELSE {RawGpt(ZeroDisk(size), lss, parts) :
                  parts \in Lists(GptParts \ {GptEntry(41, 50, LINUX_DATA)})}
            \cup {StoreAt(RawGpt(ZeroDisk(size), lss, <<>>), lba, 1, Zeroes) :
                    lba \in {0, PRIMARY_HEADER_LBA, (size \div lss) - 1}}
            \cup {Resized(RawGpt(ZeroDisk(size), lss, <<>>),
                          PRIMARY_HEADER_LBA, 1024)}
            \cup {StoreAt(RawGpt(ZeroDisk(size), lss, <<>>), 0, 1, b) :
                    b \in {HybridSector, ShortProtective}})

InitTable ==
  /\ LockIdle
  /\ FatIdle
  /\ writable = TRUE
  /\ now = 0
  /\ fat = <<>>
  /\ data = <<>>
  /\ rootdir = <<>>
  /\ cache = NotParsed
  /\ fd_table = <<>>
  /\ streams = <<>>
  /\ cwd = <<>>
  /\ result = [op |-> "init", st |-> "ok"]
  /\ oplog = <<>>
  /\ steps = 0
  /\ sector_size \in SectorSizes
  /\ \E size \in DiskSizes : media \in DiskImages(size, sector_size)
  /\ opened = FALSE
  /\ table = NoTable
  /\ held = NoTable

\* Disk.new / Disk.open: Disk.__init__ ends with read_table()
OpenDisk ==
  /\ steps < TableSteps
  /\ ~opened
  /\ result.op # "open"
  /\ steps' = steps + 1
  /\ result' = [op |-> "open", st |-> read_table(media, sector_size).st]
  /\ opened' = (read_table(media, sector_size).st = "ok")
  /\ table' = read_table(media, sector_size).table
  /\ UNCHANGED <<sector_size, media, held>>
  /\ UNCHANGED <<writable, now, fat, data, rootdir, cache, fd_table, streams,
                 oplog, cwd, lockVars, fatVars>>

\* disk.read_table()
ReadTable ==
  /\ steps < TableSteps
  /\ opened
  /\ steps' = steps + 1
  /\ result' = [op |-> "read_table", st |-> read_table(media, sector_size).st]
  /\ table' = IF read_table(media, sector_size).st = "ok"
              THEN read_table(media, sector_size).table ELSE table
  /\ UNCHANGED <<sector_size, media, opened, held>>
  /\ UNCHANGED <<writable, now, fat, data, rootdir, cache, fd_table, streams,
                 oplog, cwd, lockVars, fatVars>>

\* disk.write_at(lba, b) over the first sector or a GPT header: b is a
\* sector of zeroes, or the header the sector holds with partition entries
\* of 1024 bytes and its checksum set right
DiskWriteAt ==
  /\ steps < TableSteps
  /\ opened
  /\ steps' = steps + 1
  /\ \E lba \in {0, PRIMARY_HEADER_LBA, (media.size \div sector_size) - 1},
        zeroes \in BOOLEAN :
       /\ zeroes \/ SectorAt(media, lba).kind = "header"
       /\ result' = [op |-> "write_at", lba |-> lba,
                     st |-> IF lba >= 0 /\ write_at(media, sector_size, lba,
                                                   sector_size)
                            THEN "ok" ELSE "ValueError"]
       /\ media' = IF lba >= 0 /\ write_at(media, sector_size, lba, sector_size)
                   THEN IF zeroes THEN StoreAt(media, lba, 1, Zeroes)
                        ELSE Resized(media, lba, 1024)
                   ELSE media
  /\ UNCHANGED <<sector_size, opened, table, held>>
  /\ UNCHANGED <<writable, now, fat, data, rootdir, cache, fd_table, streams,
                 oplog, cwd, lockVars, fatVars>>

\* disk.clear(): forgets the table, then raises NotImplementedError
Clear ==
  /\ steps < TableSteps
  /\ opened
  /\ steps' = steps + 1
  /\ result' = [op |-> "clear", st |-> "NotImplementedError"]
  /\ table' = NoTable
  /\ UNCHANGED <<sector_size, media, opened, held>>
  /\ UNCHANGED <<writable, now, fat, data, rootdir, cache, fd_table, streams,
                 oplog, cwd, lockVars, fatVars>>

\* disk.partition(held)
Partition ==
  /\ steps < TableSteps
  /\ opened
  /\ held # NoTable
  /\ steps' = steps + 1
  /\ IF table # NoTable
     THEN /\ result' = [op |-> "partition", st |-> "ValueError"]
          /\ UNCHANGED <<media, table>>
     ELSE /\ result' = [op |-> "partition",
                        st |-> write_to_disk(held, media, sector_size).st]
          /\ media' = write_to_disk(held, media, sector_size).M
          /\ table' = IF write_to_disk(held, media, sector_size).st = "ok"
                      THEN held ELSE table
  /\ UNCHANGED <<sector_size, opened, held>>
  /\ UNCHANGED <<writable, now, fat, data, rootdir, cache, fd_table, streams,
                 oplog, cwd, lockVars, fatVars>>

\* mbr.Table.new(partitions) / gpt.Table.new(partitions)
TableNew ==
  /\ steps < TableSteps
  /\ steps' = steps + 1
  /\ \/ \E partitions \in Lists(MbrParts) :
          /\ result' = [op |-> "new", st |-> mbr_new(partitions).st,
                        warned |-> check_overlapping(
                                     mbr_new(partitions).table.partitions)]
          /\ held' = mbr_new(partitions).table
     \/ \E partitions \in Lists(GptParts) :
          /\ result' = [op |-> "new", st |-> "ok",
                        warned |-> check_overlapping(partitions)]
          /\ held' = GptTable(partitions, NoTable)
  /\ UNCHANGED <<sector_size, media, opened, table>>
  /\ UNCHANGED <<writable, now, fat, data, rootdir, cache, fd_table, streams,
                 oplog, cwd, lockVars, fatVars>>

\* mbr.Table.from_bytes(b)
TableFromBytes ==
  /\ steps < TableSteps
  /\ steps' = steps + 1
  /\ \E b \in MbrSectors :
       /\ result' = [op |-> "from_bytes", st |-> mbr_from_bytes(b).st,
                     warned |-> /\ mbr_from_bytes(b).st = "ok"
                                /\ check_overlapping(
                                     mbr_from_bytes(b).table.partitions)]
       /\ held' = IF mbr_from_bytes(b).st = "ok" THEN mbr_from_bytes(b).table
                  ELSE held
  /\ UNCHANGED <<sector_size, media, opened, table>>
  /\ UNCHANGED <<writable, now, fat, data, rootdir, cache, fd_table, streams,
                 oplog, cwd, lockVars, fatVars>>

\* mbr.Table.from_disk(disk) / gpt.Table.from_disk(disk)
TableFromDisk ==
  /\ steps < TableSteps
  /\ opened
  /\ steps' = steps + 1
  /\ \E codec \in {"MBR", "GPT"} :
       Bind(IF codec = "GPT" THEN gpt_from_disk(media, sector_size)
            ELSE mbr_from_disk(media, sector_size), LAMBDA r :
         /\ result' = [op |-> "from_disk", codec |-> codec, st |-> r.st,
                       warned |-> r.st = "ok"
                                  /\ check_overlapping(r.table.partitions)]
         /\ held' = IF r.st = "ok" THEN r.table ELSE held)
  /\ UNCHANGED <<sector_size, media, opened, table>>
  /\ UNCHANGED <<writable, now, fat, data, rootdir, cache, fd_table, streams,
                 oplog, cwd, lockVars, fatVars>>

NextTable ==
  \/ OpenDisk
  \/ ReadTable
  \/ DiskWriteAt
  \/ Clear
  \/ Partition
  \/ TableNew
  \/ TableFromBytes
  \/ TableFromDisk

SpecTable == InitTable /\ [][NextTable]_vars

(***************************************************************************)
(* CHS addresses of an MBR partition entry.                                *)
(***************************************************************************)
HEADS == 255
SECTORS_PER_TRACK == 63
HEAD_INVALID == 255
SECTOR_INVALID == 0
CHS_INVALID == <<1023, 254, 63>>
CHS_OVERFLOW == <<1023, 255, 63>>
CHS_MAX_ADDRESSABLE == (2^10) * (2^8 - 1) * (2^6 - 1) - 1

ChsSpan == 3               \* LBAs taken on each side of a boundary
ChsLength == 4             \* longest partition serialized

\* _lba_to_chs: (cylinder, head, sector)
lba_to_chs(lba, heads, sectors_per_track) ==
  << lba \div (sectors_per_track * heads),
     (lba % (sectors_per_track * heads)) \div sectors_per_track,
     ((lba % (sectors_per_track * heads)) % sectors_per_track) + 1 >>

\* _pack_chs_address: the three bytes, or the class of the exception
pack_chs_address(cylinder, head, sector, check_validity) ==
  IF cylinder < 0 \/ head < 0 \/ sector < 0
  THEN [st |-> "OverflowError", bytes |-> <<>>]
  ELSE IF cylinder >= 1024 \/ head >= 256 \/ sector >= 64
  THEN [st |-> "OverflowError", bytes |-> <<>>]
  ELSE IF check_validity
          /\ (\/ head = HEAD_INVALID
              \/ sector = SECTOR_INVALID
              \/ <<cylinder, head, sector>> = CHS_INVALID)
  THEN [st |-> "ValueError", bytes |-> <<>>]
  ELSE [st |-> "ok",
        bytes |-> <<head, ((cylinder \div 256) % 4) * 64 + sector,
                    cylinder % 256>>]

\* the address field of PartitionEntry.__bytes__ for one LBA
chs_field(lba) ==
  IF lba > CHS_MAX_ADDRESSABLE
  THEN pack_chs_address(CHS_OVERFLOW[1], CHS_OVERFLOW[2], CHS_OVERFLOW[3],
                        FALSE)
  ELSE pack_chs_address(lba_to_chs(lba, HEADS, SECTORS_PER_TRACK)[1],
                        lba_to_chs(lba, HEADS, SECTORS_PER_TRACK)[2],
                        lba_to_chs(lba, HEADS, SECTORS_PER_TRACK)[3], TRUE)

\* mbr.PartitionEntry.__bytes__ of a non-empty entry: the two address
\* fields and the two LBA fields
mbr_entry_bytes(p) ==
  IF chs_field(p.start_lba).st # "ok"
  THEN [st |-> chs_field(p.start_lba).st]
  ELSE IF chs_field(end_lba(p)).st # "ok"
  THEN [st |-> chs_field(end_lba(p)).st]
  ELSE [st |-> "ok",
        start_chs |-> chs_field(p.start_lba).bytes,
        end_chs |-> chs_field(end_lba(p)).bytes,
        start_lba |-> p.start_lba, length_lba |-> p.length_lba,
        type |-> p.type]

\* LBAs around the ends of a track, of a cylinder, of 256 cylinders and of
\* the range that CHS addresses cover
ChsLbas ==
  {b + d : b \in {0, SECTORS_PER_TRACK, SECTORS_PER_TRACK * HEADS,
                  256 * SECTORS_PER_TRACK * HEADS, CHS_MAX_ADDRESSABLE},
           d \in (0 - ChsSpan - ChsLength)..ChsSpan} \ ((0 - ChsSpan - ChsLength)..0)

InitChs ==
  /\ LockIdle
  /\ FatIdle
  /\ TableIdle
  /\ writable = TRUE
  /\ now = 0
  /\ fat = <<>>
  /\ data = <<>>
  /\ rootdir = <<>>
  /\ cache = NotParsed
  /\ fd_table = <<>>
  /\ streams = <<>>
  /\ cwd = <<>>
  /\ result = [op |-> "init", st |-> "ok"]
  /\ oplog = <<>>
  /\ steps = 0

\* bytes(PartitionEntry.new(start_lba, length_lba, type))
SerializeEntry ==
  /\ \E start_lba \in ChsLbas, length_lba \in 1..ChsLength :
       result' = [op |-> "bytes",
                  entry |-> MbrEntry(start_lba, length_lba, FAT32_LBA),
                  bytes |-> mbr_entry_bytes(
                              MbrEntry(start_lba, length_lba, FAT32_LBA)),
                  st |-> mbr_entry_bytes(
                           MbrEntry(start_lba, length_lba, FAT32_LBA)).st]
  /\ UNCHANGED <<writable, now, fat, data, rootdir, cache, fd_table, streams,
                 oplog, cwd, steps, lockVars, fatVars, tableVars>>

NextChs == SerializeEntry

SpecChs == InitChs /\ [][NextChs]_vars

(***************************************************************************)
(* DOS datetimes.                                                          *)
(***************************************************************************)
DOS_YEAR_MIN == 1980
DOS_YEAR_MAX == 2107
DOS_TIME_TEN_MS_MAX == 199

NoDatetime == [year |-> 0, month |-> 0, day |-> 0, hour |-> 0, minute |-> 0,
               second |-> 0, microsecond |-> 0]

\* datetime(...): the value, or NoDatetime for the ValueError of a field out
\* of range
is_leap(y) == y % 4 = 0 /\ (y % 100 # 0 \/ y % 400 = 0)
days_in_month(y, m) ==
  IF m = 2 THEN (IF is_leap(y) THEN 29 ELSE 28)
  ELSE IF m \in {4, 6, 9, 11} THEN 30 ELSE 31
datetime_valid(y, m, d, hh, mm, ss, us) ==
  /\ y \in 1..9999
  /\ m \in 1..12
  /\ d >= 1
  /\ d <= days_in_month(y, m)
  /\ hh \in 0..23
  /\ mm \in 0..59
  /\ ss \in 0..59
  /\ us \in 0..999999

\* pack_dos_datetime: (date, time, 10 ms count); the fields do not overlap,
\* so the shifts and ors are sums
pack_dos_datetime(dt) ==
  IF dt.year < DOS_YEAR_MIN \/ dt.year > DOS_YEAR_MAX
  THEN [st |-> "ValueError", date |-> 0, time |-> 0, time_ten_ms |-> 0]
  ELSE [st |-> "ok",
        date |-> (dt.year - DOS_YEAR_MIN) * 512 + dt.month * 32 + dt.day,
        time |-> dt.hour * 2048 + dt.minute * 32 + (dt.second \div 2),
        time_ten_ms |-> (dt.second % 2) * 100 + (dt.microsecond \div 10000)]

unpacked_fields(date, time, time_ten_ms) ==
  [year |-> ((date \div 512) % 128) + DOS_YEAR_MIN,
   month |-> (date \div 32) % 16,
   day |-> date % 32,
   hour |-> (time \div 2048) % 32,
   minute |-> (time \div 32) % 64,
   second |-> (time % 32) * 2 + (time_ten_ms \div 100),
   microsecond |-> (time_ten_ms % 100) * 10000]

\* unpack_dos_datetime: the datetime, or NoDatetime for None
unpack_dos_datetime(date, time, time_ten_ms) ==
  IF time_ten_ms >= DOS_TIME_TEN_MS_MAX THEN NoDatetime
  ELSE Bind(unpacked_fields(date, time, time_ten_ms), LAMBDA f :
         IF datetime_valid(f.year, f.month, f.day, f.hour, f.minute,
                           f.second, f.microsecond)
         THEN f ELSE NoDatetime)

\* datetimes at the ends of every field, at 10 ms resolution
Datetimes ==
  {dt \in [year : {1979, 1980, 2100, 2107, 2108}, month : {2, 12},
           day : {1, 29, 31}, hour : {0, 23}, minute : {0, 59},
           second : {0, 1, 59}, microsecond : {0, 990000}] :
     datetime_valid(dt.year, dt.month, dt.day, dt.hour, dt.minute,
                    dt.second, dt.microsecond)}

InitDos ==
  /\ LockIdle
  /\ FatIdle
  /\ TableIdle
  /\ writable = TRUE
  /\ now = 0
  /\ fat = <<>>
  /\ data = <<>>
  /\ rootdir = <<>>
  /\ cache = NotParsed
  /\ fd_table = <<>>
  /\ streams = <<>>
  /\ cwd = <<>>
  /\ result = [op |-> "init", st |-> "ok"]
  /\ oplog = <<>>
  /\ steps = 0

\* unpack_dos_datetime(*pack_dos_datetime(dt))
PackUnpack ==
  /\ \E dt \in Datetimes :
       result' = [op |-> "pack_unpack", dt |-> dt,
                  st |-> pack_dos_datetime(dt).st,
                  packed |-> pack_dos_datetime(dt),
                  unpacked |-> IF pack_dos_datetime(dt).st = "ok"
                               THEN unpack_dos_datetime(
                                      pack_dos_datetime(dt).date,
                                      pack_dos_datetime(dt).time,
                                      pack_dos_datetime(dt).time_ten_ms)
                               ELSE NoDatetime]
  /\ UNCHANGED <<writable, now, fat, data, rootdir, cache, fd_table, streams,
                 oplog, cwd, steps, lockVars, fatVars, tableVars>>

NextDos == PackUnpack

SpecDos == InitDos /\ [][NextDos]_vars

(***************************************************************************)
(* VFAT chains: Entry.__init__ and iter_entries over records that keep     *)
(* the sequence byte and the checksum of every VFAT entry.  The checksum   *)
(* of a DOS name is taken as injective: it is the name.                    *)
(***************************************************************************)
MAX_VFAT_ENTRIES == 20
VFAT_FIRST_LFN_ENTRY == 64
VFAT_ENTRY_NUMBER_MASK == 31

MaxChain == 2              \* longest chain built from free records

EndRec == [k |-> "end"]                       \* first byte 0x00
DeletedRec == [k |-> "deleted"]               \* first byte 0xE5
LfnRec(seq, sum) == [k |-> "vfat", seq |-> seq, sum |-> sum]
EdtRec(dos) == [k |-> "edt", dos |-> dos]

\* VfatEntry.number, VfatEntry.first_lfn_entry (seq is one byte)
vfat_number(e) == e.seq % (VFAT_ENTRY_NUMBER_MASK + 1)
first_lfn_entry(e) == (e.seq \div VFAT_FIRST_LFN_ENTRY) % 2 = 1

\* VfatEntry.validate, as from_bytes runs it on a record with the VFAT
\* attribute and a zero cluster field
vfat_validate(e) ==
  IF vfat_number(e) >= 1 /\ vfat_number(e) <= MAX_VFAT_ENTRIES
  THEN "ok" ELSE "ValidationError"

dos_filename_checksum(edt) == edt.dos

\* Entry.__init__: "ok" or the class of the exception
entry_init(edt, vfat_entries, vfat) ==
  IF vfat_entries # <<>> /\ ~vfat THEN "ValueError"
  ELSE IF edt.k # "edt" THEN "ValueError"
  ELSE IF Len(vfat_entries) > MAX_VFAT_ENTRIES THEN "ValidationError"
  ELSE IF vfat_entries # <<>> /\ ~first_lfn_entry(vfat_entries[1])
  THEN "ValidationError"
  ELSE IF \E i \in 1..Len(vfat_entries) :
            vfat_entries[i].sum # dos_filename_checksum(edt)
  THEN "ValidationError"
  ELSE "ok"

EntryItem(edt, vfat_entries) ==
  [t |-> "Entry", edt |-> edt, vfat_entries |-> vfat_entries]
RawItem(rec) == [t |-> "raw", edt |-> rec, vfat_entries |-> <<>>]
RawSeq(recs) == [i \in 1..Len(recs) |-> RawItem(recs[i])]

\* the pending 8.3 forms after the VFAT record rec was met
PendingEdt(pending_edt, rec, only_useful) ==
  IF only_useful THEN pending_edt ELSE Append(pending_edt, rec)

\* iter_entries: the items yielded from record i on
RECURSIVE IterDir(_, _, _, _, _, _)
IterDir(recs, i, pending_edt, pending_vfat, only_useful, vfat) ==
  IF i > Len(recs) THEN <<>>
  ELSE IF recs[i].k = "end" THEN RawSeq(pending_edt)
  ELSE IF recs[i].k = "deleted"
  THEN RawSeq(pending_edt)
       \o (IF only_useful THEN <<>> ELSE <<RawItem(recs[i])>>)
       \o IterDir(recs, i + 1, <<>>, <<>>, only_useful, vfat)
  ELSE IF recs[i].k = "vfat"
  THEN IF ~vfat
       THEN (IF only_useful THEN <<>> ELSE <<RawItem(recs[i])>>)
            \o IterDir(recs, i + 1, pending_edt, pending_vfat, only_useful,
                       vfat)
       ELSE IF vfat_validate(recs[i]) # "ok"
       THEN RawSeq(PendingEdt(pending_edt, recs[i], only_useful))
            \o IterDir(recs, i + 1, <<>>, <<>>, only_useful, vfat)
       ELSE IterDir(recs, i + 1, PendingEdt(pending_edt, recs[i], only_useful),
                    Append(pending_vfat, recs[i]), only_useful, vfat)
  ELSE IF entry_init(recs[i], pending_vfat, vfat) = "ok"
  THEN <<EntryItem(recs[i], pending_vfat)>>
       \o IterDir(recs, i + 1, <<>>, <<>>, only_useful, vfat)
  ELSE RawSeq(pending_edt) \o <<EntryItem(recs[i], <<>>)>>
       \o IterDir(recs, i + 1, <<>>, <<>>, only_useful, vfat)

\* the chain create_entry builds for a name of n groups of 13 characters,
\* and the chain of 21 entries that repeats the number 20
Descending(n, sum) ==
  [i \in 1..n |->
     LfnRec((IF i = 1 THEN VFAT_FIRST_LFN_ENTRY ELSE 0)
            + (IF n + 1 - i > MAX_VFAT_ENTRIES THEN MAX_VFAT_ENTRIES
               ELSE n + 1 - i), sum)]

ChainRecs ==
  {LfnRec(seq, sum) : seq \in {0, 1, 2, 65, 66, 67}, sum \in {"A", "B"}}
    \cup {DeletedRec}
RECURSIVE SeqsUpTo(_, _)
SeqsUpTo(S, n) ==
  IF n = 0 THEN {<<>>}
  ELSE SeqsUpTo(S, n - 1)
         \cup {Append(q, x) : q \in {p \in SeqsUpTo(S, n - 1) : Len(p) = n - 1},
                              x \in S}
ChainInputs ==
  SeqsUpTo(ChainRecs, MaxChain)
    \cup {Descending(MAX_VFAT_ENTRIES, "A"),
          Descending(MAX_VFAT_ENTRIES + 1, "A")}
DirInputs ==
  {pre \o chain \o <<EdtRec("A")>> \o suf :
     pre \in {<<>>, <<EndRec>>}, chain \in ChainInputs,
     suf \in {<<>>, <<EndRec, EdtRec("B")>>}}

InitScan ==
  /\ LockIdle
  /\ FatIdle
  /\ TableIdle
  /\ writable = TRUE
  /\ now = 0
  /\ fat = <<>>
  /\ data = <<>>
  /\ rootdir = <<>>
  /\ cache = NotParsed
  /\ fd_table = <<>>
  /\ streams = <<>>
  /\ cwd = <<>>
  /\ result = [op |-> "init", st |-> "ok"]
  /\ oplog = <<>>
  /\ steps = 0

\* Entry(edt, vfat_entries, vfat=True) with VfatEntry objects, which exist
\* only when they validate
ConstructEntry ==
  /\ result.op = "init"
  /\ \E chain \in ChainInputs :
       /\ \A i \in 1..Len(chain) :
            chain[i].k = "vfat" /\ vfat_validate(chain[i]) = "ok"
       /\ result' = [op |-> "Entry", edt |-> EdtRec("A"),
                     vfat_entries |-> chain,
                     st |-> entry_init(EdtRec("A"), chain, TRUE)]
  /\ UNCHANGED <<writable, now, fat, data, rootdir, cache, fd_table, streams,
                 oplog, cwd, steps, lockVars, fatVars, tableVars>>

\* tuple(iter_entries(recs, only_useful=only_useful, vfat=vfat))
IterEntries ==
  /\ result.op = "init"
  /\ \E recs \in DirInputs, only_useful \in BOOLEAN, vfat \in BOOLEAN :
       result' = [op |-> "iter_entries", recs |-> recs,
                  only_useful |-> only_useful, vfat |-> vfat, st |-> "ok",
                  items |-> IterDir(recs, 1, <<>>, <<>>, only_useful, vfat)]
  /\ UNCHANGED <<writable, now, fat, data, rootdir, cache, fd_table, streams,
                 oplog, cwd, steps, lockVars, fatVars, tableVars>>

NextScan ==
  \/ ConstructEntry
  \/ IterEntries

SpecScan == InitScan /\ [][NextScan]_vars

(***************************************************************************)
(* Writes at any stream position of one DataIO stream.                     *)
(***************************************************************************)
MaxSeek == 3               \* largest position, in cells, a write starts at
MaxWrite == 4              \* longest buffer, in cells, that is written
WriteSteps == 2            \* writes in one behaviour

\* stream.seek(pos); stream.write(b); before is the volume and was the
\* stream when the call is made
SeekWrite ==
  /\ steps < WriteSteps
  /\ steps' = steps + 1
  /\ \E pos \in 0..MaxSeek, n \in 1..MaxWrite, v \in {1, 2} :
       /\ StreamLeaves(Write(World, [streams[1] EXCEPT !.pos = pos],
                             [i \in 1..n |-> DataCell(v)], now))
       /\ result' = [op |-> "seek_write", pos |-> pos,
                     b |-> [i \in 1..n |-> DataCell(v)],
                     st |-> Write(World, [streams[1] EXCEPT !.pos = pos],
                                  [i \in 1..n |-> DataCell(v)], now).st,
                     before |-> free_clusters(fat), was |-> streams[1].size]
  /\ UNCHANGED <<writable, now, rootdir, cache, fd_table, cwd, lockVars,
                 fatVars, tableVars>>

NextWrite == SeekWrite

SpecWrite == InitStream /\ [][NextWrite]_vars

(***************************************************************************)
(* scandir("/") consumed step by step while other calls are made between   *)
(* its yields.  FileSystem.scandir and _get_children are generators: a     *)
(* next() of the consumer runs them to the next yield.  _scandir reads the *)
(* directory through a BufferedReader of one unit, so a unit is read from  *)
(* the volume when the cell before it has been consumed.  The generator's  *)
(* frame is gen[Consumer]: src "scan" (node.children was None when the     *)
(* generator started) or "list" (yield from node.children), pos the cells  *)
(* consumed (the index into the list), buf the cells buffered by the       *)
(* reader, pending the VFAT cells before an 8.3 cell, kids the local list  *)
(* `children`.                                                             *)
(***************************************************************************)
Consumer == CHOOSE t \in Threads : \A u \in Threads : t <= u

\* the frame of _get_children(root) once its first line has run
GenStart(W) ==
  [st |-> "running", dir |-> "/", pos |-> 0, kids |-> <<>>, buf |-> <<>>,
   pending |-> <<>>, src |-> IF W.cache # NotParsed THEN "list" ELSE "scan"]

RECURSIVE GetChildrenNext(_, _)
\* _get_children(root) run from frame G to its next yield, or to its end:
\* the frame it is left in
GetChildrenNext(W, G) ==
  IF G.src = "list"
    THEN IF W.cache # NotParsed /\ G.pos < Len(W.cache)
           THEN [G EXCEPT !.st = "yielded", !.pos = @ + 1]
           ELSE [G EXCEPT !.st = "stop"]
  ELSE IF G.buf = <<>>
    THEN IF G.pos >= RootSize
           THEN [G EXCEPT !.st = "stop"]                      \* read: b""
           ELSE GetChildrenNext(W, [G EXCEPT !.buf =
                  ReadUnit(W, RootdirIOInit.S, G.pos \div ClusterCells).b])
  ELSE Bind(Head(G.buf), LAMBDA c :
       Bind([G EXCEPT !.buf = Tail(@), !.pos = @ + 1], LAMBDA G1 :
       IF c.k = "z" THEN [G1 EXCEPT !.st = "stop"]            \* END_OF_ENTRIES
       ELSE IF c.k \in {"del", "b"}
         THEN GetChildrenNext(W, [G1 EXCEPT !.pending = <<>>])
       ELSE IF c.k = "lfn"
         THEN GetChildrenNext(W, [G1 EXCEPT !.pending = Append(@, c)])
       ELSE [G1 EXCEPT !.st = "yielded", !.pending = <<>>,
                       !.kids = Append(@, MkNode(EntryOf(c, G.pending), NotParsed))]))

\* node.children = children, the last line of _get_children
GetChildrenStore(ch, G) == IF G.src = "scan" /\ G.st = "stop" THEN G.kids ELSE ch

\* the consumer calls next() on scandir("/")
ScandirNext ==
  /\ gen[Consumer].st # "stop"
  /\ Bind(GetChildrenNext(World, IF gen[Consumer].st = "none"
                                   THEN GenStart(World) ELSE gen[Consumer]),
          LAMBDA G :
       /\ gen' = [gen EXCEPT ![Consumer] = G]
       /\ cache' = GetChildrenStore(cache, G))
  /\ result' = [op |-> "next", st |-> "ok"]
  /\ UNCHANGED <<writable, now, fat, data, rootdir, fd_table, streams, oplog,
                 cwd, steps, lock, pc, call, rootkids, seen, fatVars, tableVars>>

\* the volume holds /A, /A/A and /LongName and is writable; the clock does
\* not matter to the scan
InitGen == Init /\ writable /\ now = 0 /\ rootdir = ImageOf("full").root

\* the calls made between two next() of the consumer
GenCalls == 2
BetweenOpenFd == steps < GenCalls /\ OpenFd
BetweenMkdir == steps < GenCalls /\ Mkdir
BetweenUnlink == steps < GenCalls /\ Unlink
BetweenMove == steps < GenCalls /\ Move

NextGen ==
  \/ ScandirNext
  \/ BetweenOpenFd
  \/ BetweenMkdir
  \/ BetweenUnlink
  \/ BetweenMove

SpecGen == InitGen /\ [][NextGen]_vars

(***************************************************************************)
(* _transform_entry on one directory table.  The table is the root         *)
(* directory region; it holds, in any order, deleted slots and the files   *)
(* A (one slot), LongName (two slots) and VeryLongName (three slots).      *)
(***************************************************************************)
TablePieces == 3           \* entries and deleted slots of the table at the start

FileNamed(name, stamp) ==
  MkEntry(name, IF name = "A" THEN "A" ELSE IF name = "LongName" THEN Tilde(1)
                ELSE VeryLongAlias,
          name # "A", FALSE, 0, 0, 0, stamp)
TableNames == {"A", "LongName", "VeryLongName"}

RECURSIVE TableLists(_)
\* what the table lists: names, each at most once, and "del" for a
\* deleted slot
TableLists(n) ==
  IF n = 0 THEN {<<>>}
  ELSE TableLists(n - 1)
       \cup {Append(l, x) : l \in {m \in TableLists(n - 1) : Len(m) = n - 1},
                            x \in TableNames \cup {"del"}}

RECURSIVE TableCells(_)
TableCells(list) ==
  IF list = <<>> THEN <<>>
  ELSE (IF Head(list) = "del" THEN <<DelCell>>
        ELSE EntryBytes(FileNamed(Head(list), 0))) \o TableCells(Tail(list))

NoRepeat(list) ==
  \A i, j \in 1..Len(list) : i # j /\ list[i] = list[j] => list[i] = "del"

Tables ==
  {RootOf(TableCells(l)) : l \in {m \in TableLists(TablePieces) :
                                    NoRepeat(m) /\ Len(TableCells(m)) <= RootSize}}

\* name is the name of an entry of the table
Listed(cells, name) ==
  \E i \in 1..Len(cells) : cells[i].k = "edt" /\ cells[i].dos = FileNamed(name, 0).dos

InitTransform ==
  /\ LockIdle
  /\ FatIdle
  /\ TableIdle
  /\ writable = TRUE
  /\ now = 0
  /\ fat = Blank(2, LowClusters).fat
  /\ data = Blank(2, LowClusters).data
  /\ rootdir \in Tables
  /\ cache = NotParsed
  /\ fd_table = <<>>
  /\ streams = <<>>
  /\ cwd = <<>>
  /\ result = [op |-> "init", st |-> "ok"]
  /\ oplog = <<>>
  /\ steps = 0

\* _transform_entry(old_entry, new_entry, None, PurePath("/")) as its callers
\* call it: old_entry is an entry of the table or None, new_entry is None or
\* an entry whose name is old_entry's or is not in the table
Transform ==
  /\ result.op = "init"
  /\ \E o \in {n \in TableNames : Listed(rootdir, n)} \cup {"None"}, n \in TableNames \cup {"None"}, stamp \in 0..MaxTime :
       /\ o # "None" \/ n # "None"
       /\ n = "None" \/ n = o \/ ~Listed(rootdir, n)
       /\ Bind(IF o = "None" THEN NoEntry ELSE FileNamed(o, 0), LAMBDA old_entry :
          Bind(IF n = "None" THEN NoEntry ELSE FileNamed(n, stamp), LAMBDA new_entry :
          Bind(TransformEntry(World, old_entry, new_entry, NoEntry, <<>>), LAMBDA r :
            /\ Leaves(r.W)
            /\ result' = [op |-> "transform", st |-> r.st, old |-> old_entry,
                          new |-> new_entry, before |-> rootdir])))
  /\ UNCHANGED <<writable, now, cwd, fd_table, streams, lockVars, fatVars, tableVars>>

NextTransform == Transform

SpecTransform == InitTransform /\ [][NextTransform]_vars

(***************************************************************************)
(* next_free_clusters on tables of the small volume, any of whose data     *)
(* clusters is taken or empty.                                             *)
(***************************************************************************)
FreeTables ==
  {[k \in DOMAIN BlankFat(2, LowClusters) |->
      IF k \in taken THEN CLUSTER_EOC_12 ELSE BlankFat(2, LowClusters)[k]] :
     taken \in SUBSET (2..(LowClusters + 1))}

InitFree ==
  /\ LockIdle
  /\ FatIdle
  /\ TableIdle
  /\ writable = TRUE
  /\ now = 0
  /\ fat \in FreeTables
  /\ data = Blank(2, LowClusters).data
  /\ rootdir = BlankRoot
  /\ cache = NotParsed
  /\ fd_table = <<>>
  /\ streams = <<>>
  /\ cwd = <<>>
  /\ result = [op |-> "init", st |-> "ok"]
  /\ oplog = <<>>
  /\ steps = 0

\* tuple(fat.next_free_clusters(count)), as DataIO._allocate calls it
NextFreeClusters ==
  /\ result.op = "init"
  /\ \E count \in 0..(LowClusters + 1) :
       result' = [op |-> "next_free_clusters", count |-> count,
                  st |-> next_free_clusters(fat, count).st,
                  clusters |-> next_free_clusters(fat, count).clusters]
  /\ UNCHANGED <<writable, now, fat, data, rootdir, cache, fd_table, streams,
                 oplog, cwd, steps, lockVars, fatVars, tableVars>>

NextFree == NextFreeClusters

SpecFree == InitFree /\ [][NextFree]_vars

(***************************************************************************)
(* The current working directory: chdir among calls that remove and move   *)
(* directories.  Paths are given as realpaths.                             *)
(***************************************************************************)
\* FileSystem.chdir(path): [st, W, cwd]
chdir(W, path) ==
  IF ~writable THEN [st |-> "ValueError", W |-> W, cwd |-> cwd]
  ELSE IF path = <<>> THEN [st |-> "ok", W |-> W, cwd |-> <<>>]
  ELSE
    Bind(FindNode(W, path, "none"), LAMBDA f :
    IF f.st # "ok" THEN [st |-> f.st, W |-> f.W, cwd |-> cwd]
    ELSE IF ~f.node.entry.dir THEN [st |-> "ENOTDIR", W |-> f.W, cwd |-> cwd]
    ELSE [st |-> "ok", W |-> f.W, cwd |-> path])

Chdir ==
  /\ steps < MaxSteps
  /\ \E path \in Paths \cup {<<>>} :
       Bind(chdir(World, path), LAMBDA r :
         /\ Leaves(r.W)
         /\ cwd' = r.cwd
         /\ result' = [op |-> "chdir", path |-> path, st |-> r.st])
  /\ UNCHANGED <<writable, now, fd_table, streams, lockVars, fatVars, tableVars>>

NextCwd ==
  \/ Chdir
  \/ Rmdir
  \/ Move

SpecCwd == Init /\ [][NextCwd]_vars

(***************************************************************************)
(* Properties.                                                             *)
(***************************************************************************)
\* what a later lookup of path sees of the node's in_use flag
NodeInUse(path) ==
  LET f == FindNode(World, path, "none") IN f.st = "ok" /\ f.node.in_use

\* path names a regular file, as the FileSystem object sees it
IsFile(W, path) ==
  LET f == FindNode(W, path, "none") IN f.st = "ok" /\ ~f.node.entry.dir

\* the DataIO of the regular file at path can be constructed
ChainReadable(W, path) ==
  LET f == FindNode(W, path, "none")
  IN  f.st = "ok" /\ DataIOInit(W, f.node.entry).st = "ok"

HasDescriptor(path) == \E fd \in DOMAIN fd_table : fd_table[fd].path = path

\* the bytes a FileSystem freshly loaded from the volume reads at path
FreshRead(W, path) ==
  LET Wf == [W EXCEPT !.cache = NotParsed]
      f == FindNode(Wf, path, "none")
      io == DataIOInit(Wf, f.node.entry)
  IN  IF f.st # "ok" THEN [st |-> f.st, b |-> <<>>]
      ELSE IF f.node.entry.dir THEN [st |-> "EISDIR", b |-> <<>>]
      ELSE IF io.st # "ok" THEN [st |-> io.st, b |-> <<>>]
      ELSE Read(Wf, io.S, 0, -1)

DiskEvents == {"fat", "flush", "data", "root"}
Called == steps' = steps + 1

\* C1: as long as at least one descriptor for a file remains in the fd
\* table, its stream stays open and the file's node stays flagged in_use
\* (closefd closes the stream and clears the flag only with the last one).
C1_InUseWhileOpen ==
  \A fd \in DOMAIN fd_table :
    /\ fd_table[fd].stream \in DOMAIN streams
    /\ NodeInUse(fd_table[fd].path)

\* C2: descriptors opened on one path share one stream, every row's stream
\* is open, a stream's fd_count is the number of fd-table rows that refer
\* to it, and closefd closes the stream exactly when no row is left.
C2_FdCount ==
  /\ \A fd \in DOMAIN fd_table : fd_table[fd].stream \in DOMAIN streams
  /\ \A f1 \in DOMAIN fd_table, f2 \in DOMAIN fd_table :
       fd_table[f1].path = fd_table[f2].path
         => fd_table[f1].stream = fd_table[f2].stream
  /\ \A sid \in DOMAIN streams :
       /\ streams[sid].fd_count
            = Cardinality({fd \in DOMAIN fd_table : fd_table[fd].stream = sid})
       /\ streams[sid].fd_count > 0
  /\ (result.op = "closefd" /\ result.st = "ok")
       => (result.closed
             <=> ~\E fd \in DOMAIN fd_table : fd_table[fd].stream = result.stream)

\* two descriptors share one stream
C2_Witness ==
  \E sid \in DOMAIN streams :
    /\ streams[sid].fd_count = 2
    /\ Cardinality({fd \in DOMAIN fd_table : fd_table[fd].stream = sid}) = 2

C4_InUseUntouched ==
  [][(/\ Called
      /\ writable
      /\ result'.op \in {"unlink", "rmdir", "rename", "replace"}
      /\ \/ HasDescriptor(result'.path)
         \/ /\ result'.op \in {"rename", "replace"}
            /\ result'.dst # result'.path
            /\ FindNode(World, result'.path, "none").st = "ok"
            /\ HasDescriptor(result'.dst))
       => (/\ result'.st # "ok"
           /\ fat' = fat /\ data' = data /\ rootdir' = rootdir)]_vars

\* C5: when the last descriptor of a file that was written through it is
\* closed, a FileSystem freshly loaded from the volume reads at that path
\* exactly the bytes of the stream.
C5_ReadBack ==
  [][(/\ Called
      /\ result'.op = "closefd" /\ result'.st = "ok" /\ result'.closed
      /\ Cardinality(DOMAIN fd_table) = 1
      /\ streams[result'.stream].lw # -1
      /\ IsFile(World, result'.path))
       => (/\ FreshRead(World', result'.path).st = "ok"
           /\ FreshRead(World', result'.path).b
                = Read(World, streams[result'.stream], 0, -1).b)]_vars

\* C8: in every call, each FAT change is followed by a flush of the FAT
\* buffer before the call returns, and no data-region cluster is written
\* between the change and that flush.
C8_FatFlushedFirst ==
  \A i \in 1..Len(oplog) :
    oplog[i] = "fat"
      => \E j \in (i + 1)..Len(oplog) :
           /\ oplog[j] = "flush"
           /\ \A m \in (i + 1)..(j - 1) : oplog[m] # "data"

\* a stream was extended: FAT changes, the flush, then the data clusters
C8_Witness ==
  \E i \in 1..Len(oplog), j \in 1..Len(oplog), k \in 1..Len(oplog) :
    /\ i < j /\ j < k
    /\ oplog[i] = "fat" /\ oplog[j] = "flush" /\ oplog[k] = "data"
    /\ result.st = "ok"

\* C9 as stated: in every call the Node tree, cached entries included, is
\* changed only after all on-disk writes of the call.
C9_TreeAfterDisk ==
  \A i \in 1..Len(oplog), j \in 1..Len(oplog) :
    (i < j /\ oplog[i] \in {"entry", "list"}) => oplog[j] \notin DiskEvents

\* C9 amended: the children lists of the tree are changed only after all
\* on-disk writes of the call; a cached entry is replaced only after an
\* on-disk rewrite of a directory entry.
C9_ListsAfterDisk ==
  /\ \A i \in 1..Len(oplog), j \in 1..Len(oplog) :
       (i < j /\ oplog[i] = "list") => oplog[j] \notin DiskEvents
  /\ \A i \in 1..Len(oplog) :
       oplog[i] = "entry"
         => Cardinality({m \in 1..i : oplog[m] = "entry"})
              <= Cardinality({m \in 1..i : oplog[m] \in {"root", "data"}})

\* a cached entry was replaced, the disk was written again, and a children
\* list changed last
C9_Witness ==
  \E i \in 1..Len(oplog), j \in 1..Len(oplog), k \in 1..Len(oplog) :
    /\ i < j /\ j < k
    /\ oplog[i] = "entry" /\ oplog[j] \in DiskEvents /\ oplog[k] = "list"

\* thread t holds no with block of the FileSystem lock
Outside(t) == pc[t] \in {"idle", "wait", "nolock"}
\* the generator of thread t is suspended at its yield
AtYield(t) == gen[t].st = "yielded" /\ pc[t] = "idle"
LockOk ==
  /\ \A t \in Threads : AtYield(t) => lock # t
  /\ \A t \in Threads : lock = t => ~Outside(t)

\* C6: scandir holds the lock only while it advances the directory
\* iterator: a generator suspended at its yield does not hold the lock, the
\* lock is only ever held by a thread that is executing inside a with
\* block (so every caller that waits for it gets it: no call is blocked by
\* a suspended generator, the consumer's own calls included), and every
\* step that advances the iterator is made with the lock held.
C6_ScandirLock ==
  [][/\ LockOk
     /\ LockOk'
     /\ \A t \in Threads :
          gen'[t].pos > gen[t].pos => lock = t /\ lock' = t]_vars

\* a consumer has removed a directory from the directory its own generator
\* is scanning, between two yields
C6_Witness ==
  \E t \in Threads :
    /\ gen[t].st = "yielded"
    /\ gen[t].dir = "/"
    /\ call[t].m = "rmdir"
    /\ pc[t] = "out"
    /\ ~Has(rootkids, "A")

ReadOf(o, key) ==
  IF o.st # "ok" THEN [st |-> o.st, value |-> -1]
  ELSE [st |-> Fat_getitem(o.F, key).st, value |-> Fat_getitem(o.F, key).value]

\* what a Fat constructed on volume d with main FAT main reads at key
ReopenRead(d, type, main, key) ==
  ReadOf(Fat_init(d, type, main), key)

\* C10, for the cluster numbers of the data region (k >= 2): after
\* fat[k] = v and fat.flush(), a Fat constructed on the same volume reads
\* fat[k] = v, whichever FAT copy is selected as its main FAT.
C10_ReadBackEveryCopy ==
  [][(/\ result.op = "setitem"
      /\ result.st = "ok"
      /\ result.key >= 2
      /\ result'.op = "flush"
      /\ result'.st = "ok")
     => \A main \in 0..(FatCopies - 1) :
          ReopenRead(disk', fat_type, main, result.key)
            = [st |-> "ok", value |-> result.value]]_vars

\* a value above the bad-cluster mark ends a chain
IsEndOfChain(value) == value > BAD_CLUSTER_12

\* C11: for every FAT content and every start cluster, get_chain returns a
\* chain (or raises); a returned chain holds only clusters of the data
\* region, 2 .. total_clusters + 1, holds no cluster twice, and the FAT
\* value of its last cluster is an end-of-chain mark.
C11_ChainWellFormed ==
  result.op = "get_chain"
    => /\ result.st \in {"ok", "ValueError"}
       /\ result.st = "ok"
            => /\ \A i \in 1..Len(result.chain) :
                    result.chain[i] \in 2..(FatLen(fat) - 1)
               /\ \A i \in 1..Len(result.chain), j \in 1..Len(result.chain) :
                    result.chain[i] = result.chain[j] => i = j
               /\ result.chain # <<>>
                    => IsEndOfChain(fat[result.chain[Len(result.chain)]])

\* ceil(n / cluster_bytes) for n >= 1
ClustersFor(n) == (n - 1) \div ClusterCells + 1

\* the stream call that just returned grew an empty file to its size
GrewFromEmpty(r) ==
  r.op \in {"truncate", "write"} /\ r.st = "ok" /\ r.was = 0 /\ r.size > 0

\* C12: growing an empty file to n bytes takes exactly ceil(n /
\* cluster_bytes) clusters from fat.free_clusters(), and truncating that
\* file to 0 next gives back exactly the count from before the growth.
C12_GrowShrinkFree ==
  [][/\ GrewFromEmpty(result')
          => free_clusters(fat') = free_clusters(fat) - ClustersFor(result'.size)
     /\ (/\ GrewFromEmpty(result)
         /\ result'.op = "truncate" /\ result'.size = 0 /\ result'.st = "ok")
          => free_clusters(fat') = result.before]_vars

\* a file of more than one cluster was truncated to 0 and its clusters
\* are free again
C12_Witness ==
  /\ result.op = "truncate" /\ result.size = 0 /\ result.st = "ok"
  /\ result.was > ClusterCells
  /\ free_clusters(fat) = result.before + ClustersFor(result.was)

\* what listdir(path) sees through the FileSystem object: [st, n, entries],
\* n the number of children and entries their names and kinds
Listing(W, path) ==
  LET f == FindNodeOrRoot(W, path)
      g == GetChildrenAll(f.W, f)
      none(st) == [st |-> st, n |-> 0, entries |-> {}]
  IN  IF f.st # "ok" THEN none(f.st)
      ELSE IF path # <<>> /\ ~f.node.entry.dir THEN none("ENOTDIR")
      ELSE IF g.st # "ok" THEN none(g.st)
      ELSE [st |-> "ok", n |-> Len(g.kids),
            entries |-> {[name |-> g.kids[i].entry.name,
                          dir |-> g.kids[i].entry.dir] : i \in 1..Len(g.kids)}]

\* the same on a FileSystem freshly loaded from the volume
DiskListing(W, path) == Listing([W EXCEPT !.cache = NotParsed], path)

\* path resolves (the root always does)
Resolves(W, path) == FindNodeOrRoot(W, path).st = "ok"

\* listing `after` is listing `before` and one more entry, a directory
\* named name
OneMoreDir(before, after, name) ==
  /\ after.st = "ok"
  /\ after.n = before.n + 1
  /\ after.entries = before.entries \cup {[name |-> name, dir |-> TRUE]}

EmptyDir == [st |-> "ok", n |-> 0, entries |-> {}]

\* C13: on a writable volume mkdir(p) fails for the root, fails when the
\* parent of p does not exist, fails with EEXIST when p exists, and
\* otherwise succeeds and adds exactly one entry, a subdirectory named p,
\* to the parent directory, on disk and in the cached tree, after which p
\* resolves to an empty directory.
C13_Mkdir ==
  [][(Called /\ result'.op = "mkdir" /\ writable)
       => IF result'.path = <<>> THEN result'.st \notin {"ok", "EEXIST"}
          ELSE IF ~Resolves(World, Parent(result'.path))
            THEN result'.st \notin {"ok", "EEXIST"}
          ELSE IF Resolves(World, result'.path) THEN result'.st = "EEXIST"
          ELSE /\ result'.st = "ok"
               /\ OneMoreDir(Listing(World, Parent(result'.path)),
                             Listing(World', Parent(result'.path)),
                             Last(result'.path))
               /\ OneMoreDir(Listing(World, Parent(result'.path)),
                             DiskListing(World', Parent(result'.path)),
                             Last(result'.path))
               /\ Listing(World', result'.path) = EmptyDir
               /\ DiskListing(World', result'.path) = EmptyDir]_vars

\* the clusters of the chain of the node at path
NodeChain(W, path) ==
  LET f == FindNode(W, path, "none")
  IN  IF f.st # "ok" THEN {}
      ELSE LET c == get_chain(W.fat, EntryCluster(f.node.entry, FALSE)).chain
           IN  {c[i] : i \in 1..Len(c)}

\* listing `after` is listing `before` without the entry named name
OneLess(before, after, name) ==
  /\ after.st = "ok"
  /\ after.n = before.n - 1
  /\ after.entries = {e \in before.entries : e.name # name}

\* the name of the entry path leads to (path may end in its DOS name)
NameAt(W, path) == FindNode(W, path, "none").node.entry.name

\* the node at path is one that op removes: rmdir a directory without
\* children, unlink a regular file; the node is not in use
Removable(W, path, op) ==
  LET f == FindNode(W, path, "none")
  IN  /\ f.st = "ok"
      /\ ~f.node.in_use
      /\ IF op = "rmdir" THEN f.node.entry.dir /\ Listing(W, path) = EmptyDir
         ELSE ~f.node.entry.dir

\* the node at path is a directory that has children and is not in use
HasChildren(W, path) ==
  LET f == FindNode(W, path, "none")
  IN  /\ f.st = "ok"
      /\ ~f.node.in_use
      /\ Listing(W, path).st = "ok"
      /\ Listing(W, path).n > 0

\* C14: on a writable volume rmdir of a directory that has no children and
\* unlink of a regular file succeed, leave every cluster of the node's chain
\* empty in the FAT and take the node's entry out of the parent directory,
\* on disk and in the cached tree, so that the path resolves no longer;
\* rmdir of a directory that has children fails with ENOTEMPTY.
C14_Remove ==
  [][(Called /\ result'.op \in {"rmdir", "unlink"} /\ writable)
       => /\ Removable(World, result'.path, result'.op)
             => /\ result'.st = "ok"
                /\ \A c \in NodeChain(World, result'.path) : fat'[c] = CLUSTER_EMPTY
                /\ ~Resolves(World', result'.path)
                /\ ~Resolves([World' EXCEPT !.cache = NotParsed], result'.path)
                /\ OneLess(Listing(World, Parent(result'.path)),
                           Listing(World', Parent(result'.path)),
                           NameAt(World, result'.path))
                /\ OneLess(Listing(World, Parent(result'.path)),
                           DiskListing(World', Parent(result'.path)),
                           NameAt(World, result'.path))
          /\ (result'.op = "rmdir" /\ HasChildren(World, result'.path))
             => result'.st = "ENOTEMPTY"]_vars

\* path resolves to a node that is not in use
NotInUse(W, path) ==
  LET f == FindNode(W, path, "none") IN f.st = "ok" /\ ~f.node.in_use

\* path resolves to a directory (TRUE) or to a regular file (FALSE)
IsDirectory(W, path) == FindNode(W, path, "none").node.entry.dir

\* path resolves to a directory that has children
NonEmptyDir(W, path) ==
  /\ IsDirectory(W, path)
  /\ Listing(W, path).st = "ok"
  /\ Listing(W, path).n > 0

\* a rename or replace of two different paths below the root, both of
\* which resolve to nodes that are not in use, on a writable volume
MoveOnExisting ==
  /\ Called
  /\ result'.op \in {"rename", "replace"}
  /\ writable
  /\ result'.path # result'.dst
  /\ NotInUse(World, result'.path)
  /\ NotInUse(World, result'.dst)

Inode(W, path) ==
  LET f == FindNode(W, path, "none")
  IN  IF f.st # "ok" THEN [st |-> f.st]
      ELSE [st |-> "ok", cluster |-> EntryCluster(f.node.entry, FALSE),
            size |-> f.node.entry.size, dir |-> f.node.entry.dir]

\* the same on a FileSystem freshly loaded from the volume
DiskInode(W, path) == Inode([W EXCEPT !.cache = NotParsed], path)

\* the last n events of log that write the disk are writes of the FAT
FatWrittenLast(log, n) ==
  \E i \in 0..Len(log) :
    /\ \A j \in (i + 1)..Len(log) : log[j] \notin {"root", "data"}
    /\ Cardinality({j \in (i + 1)..Len(log) : log[j] = "fat"}) >= n

\* C16: after a successful replace(src, dst) onto an existing dst, dst
\* resolves to the former src node, with the start cluster and size src had,
\* src resolves no longer, and every cluster of the chain dst had is empty
\* in the FAT, written after the last write to a directory.
C16_Replace ==
  [][(Called /\ result'.op = "replace" /\ result'.st = "ok"
        /\ result'.path # result'.dst /\ Resolves(World, result'.dst))
       => /\ Inode(World', result'.dst) = Inode(World, result'.path)
          /\ DiskInode(World', result'.dst) = Inode(World, result'.path)
          /\ FindNode(World', result'.dst, "none").node.children
               = FindNode(World, result'.path, "none").node.children
          /\ ~Resolves(World', result'.path)
          /\ ~Resolves([World' EXCEPT !.cache = NotParsed], result'.path)
          /\ \A c \in NodeChain(World, result'.dst) : fat'[c] = CLUSTER_EMPTY
          /\ FatWrittenLast(oplog', Cardinality(NodeChain(World, result'.dst)))]_vars

\* a replace succeeded that freed a chain after its last write to a
\* directory: dst existed and held a cluster
C16_Witness ==
  /\ result.op = "replace"
  /\ result.st = "ok"
  /\ result.path # result.dst
  /\ Inode(World, result.dst).st = "ok"
  /\ \E i \in 1..Len(oplog) :
       /\ oplog[i] = "fat"
       /\ \A j \in i..Len(oplog) : oplog[j] \notin {"root", "data"}

\* the paths below a directory that the volumes hold
Suffixes == {<<>>, <<"A">>, <<"A", "A">>, <<"LongName">>}

\* what path holds: the listing of a directory, the bytes of a regular
\* file, both read from the volume
Content(W, path) ==
  IF Inode(W, path).st = "ok" /\ Inode(W, path).dir
    THEN [st |-> "ok", dir |-> DiskListing(W, path), b |-> <<>>]
    ELSE [st |-> FreshRead(W, path).st, dir |-> EmptyDir, b |-> FreshRead(W, path).b]

\* the clusters of the chain that starts at cluster and what they hold
ChainData(W, cluster) ==
  LET c == get_chain(W.fat, cluster).chain
  IN  [i \in 1..Len(c) |-> [cluster |-> c[i], next |-> W.fat[c[i]],
                            cells |-> W.data[c[i]]]]

\* C17: a successful rename of a directory to a path below another parent
\* leaves the directory's chain and what it holds as they were, and every
\* path that resolved below the old name resolves below the new name to
\* the same entry with the same content, on disk and in the cached tree.
C17_RenameDirectory ==
  [][(Called /\ result'.op = "rename" /\ result'.st = "ok"
        /\ Parent(result'.path) # Parent(result'.dst)
        /\ IsDirectory(World, result'.path))
       => /\ Inode(World', result'.dst) = Inode(World, result'.path)
          /\ DiskInode(World', result'.dst) = Inode(World, result'.path)
          /\ ChainData(World', Inode(World, result'.path).cluster)
               = ChainData(World, Inode(World, result'.path).cluster)
          /\ \A q \in Suffixes :
               Resolves(World, result'.path \o q)
                 => /\ Inode(World', result'.dst \o q) = Inode(World, result'.path \o q)
                    /\ DiskInode(World', result'.dst \o q)
                         = Inode(World, result'.path \o q)
                    /\ Content(World', result'.dst \o q)
                         = Content(World, result'.path \o q)]_vars

\* the clusters the file at path holds: the chain of the stream the open
\* descriptors of path share, or the chain of its entry when none is open
HeldBy(path) ==
  IF HasDescriptor(path)
    THEN LET fd == CHOOSE d \in DOMAIN fd_table : fd_table[d].path = path
             c == streams[fd_table[fd].stream].chain
         IN  {c[i] : i \in 1..Len(c)}
    ELSE NodeChain(World, path)

\* C18: when openfd with O_TRUNC on an existing file returns, the stream of
\* the new descriptor has size 0 and an empty chain and every cluster the
\* file held is empty in the FAT, also when the stream is shared with
\* descriptors opened before.
C18_OpenTruncates ==
  [][(Called /\ result'.op = "openfd" /\ result'.flags.trunc
        /\ result'.st = "ok" /\ Resolves(World, result'.path))
       => /\ streams'[fd_table'[result'.fd].stream].size = 0
          /\ streams'[fd_table'[result'.fd].stream].chain = <<>>
          /\ \A c \in HeldBy(result'.path) : fat'[c] = CLUSTER_EMPTY
          /\ \A d \in DOMAIN fd_table :
               fd_table[d].path = result'.path
                 => fd_table'[d].stream = fd_table'[result'.fd].stream]_vars

\* an openfd with O_TRUNC returned a second descriptor on a file that held
\* a cluster, and the FAT was written
C18_Witness ==
  /\ result.op = "openfd"
  /\ result.flags.trunc
  /\ result.st = "ok"
  /\ \E d \in DOMAIN fd_table :
       d # result.fd /\ fd_table[d].stream = fd_table[result.fd].stream
  /\ \E i \in 1..Len(oplog) : oplog[i] = "fat"

\* the table a read_table call should store: the GPT when the GPT codec
\* validates the disk, else the MBR when the MBR codec does, else none
FirstValid(M, lss) ==
  IF gpt_from_disk(M, lss).st = "ok" THEN gpt_from_disk(M, lss).table
  ELSE IF mbr_from_disk(M, lss).st = "ok" THEN mbr_from_disk(M, lss).table
  ELSE NoTable

\* C19: for every disk content and every logical sector size, opening a Disk
\* and every later read_table call returns without raising and leaves in
\* Disk._table the table of the first codec that validates, GPT before MBR,
\* and no table (the disk is unpartitioned) when neither validates.
C19_ReadTable ==
  [][(steps' # steps /\ result'.op \in {"open", "read_table"})
       => /\ result'.st = "ok"
          /\ table' = FirstValid(media, sector_size)]_vars

\* no two partitions of the list share a sector: sorted by start_lba, each
\* one starts after the one before it has ended
Disjoint(partitions) ==
  \A i, j \in 1..Len(partitions) :
    (i # j /\ partitions[i].start_lba <= partitions[j].start_lba)
      => end_lba(partitions[i]) < partitions[j].start_lba

\* C20 as stated: every partition list that a table codec accepted, be it
\* constructed, parsed from bytes or loaded from disk, has no two partitions
\* that overlap.
C20_NoOverlap_stated ==
  /\ held # NoTable => Disjoint(held.partitions)
  /\ table # NoTable => Disjoint(table.partitions)

\* C20: every partition list that the MBR or the GPT codec accepts for
\* writing to disk (Disk.partition, through _write_to_disk) has, sorted by
\* start_lba, each start_lba strictly greater than the previous end_lba; a
\* list that is only constructed, parsed or loaded may overlap.
C20_NoOverlap ==
  [][(steps' # steps /\ result'.op = "partition" /\ result'.st = "ok")
       => /\ table' = held
          /\ Disjoint(table'.partitions)]_vars

C20_Witness ==
  /\ result.op = "partition"
  /\ result.st = "ok"
  /\ Len(table.partitions) = 2

\* the copy of the GPT whose header is at lba validates: header and array
CopyValid(M, lss, lba) ==
  validate_copy(M, lss, lba,
    IF lba = PRIMARY_HEADER_LBA THEN (M.size \div lss) - 1
    ELSE PRIMARY_HEADER_LBA) = "ok"

\* the partitions that the array of the copy at lba lists
CopyPartitions(M, lba) ==
  SelectSeq(SectorAt(M, SectorAt(M, lba).partition_array_lba).entries, Used)

\* C21: gpt.Table.from_disk succeeds whenever the primary or the backup
\* copy validates, with the partitions of the primary copy when that one
\* validates and of the backup copy otherwise, and it fails with the
\* validation error 'No valid GPT found' only when both copies fail.
C21_GptFallback ==
  [][(steps' # steps /\ result'.op = "from_disk" /\ result'.codec = "GPT"
        /\ gpt_check_lss(sector_size)
        /\ read_at(media, sector_size, PRIMARY_HEADER_LBA, 1))
       => IF CopyValid(media, sector_size, PRIMARY_HEADER_LBA)
          THEN /\ result'.st = "ok"
               /\ held'.partitions = CopyPartitions(media, PRIMARY_HEADER_LBA)
          ELSE IF CopyValid(media, sector_size, (media.size \div sector_size) - 1)
          THEN /\ result'.st = "ok"
               /\ held'.partitions =
                    CopyPartitions(media, (media.size \div sector_size) - 1)
          ELSE result'.st = "ValidationError"]_vars

\* C22: on a disk that Disk.partition has just written a GPT to, gpt.Table
\* from_disk succeeds and returns a table equal to the one written, from the
\* disk as it is, from the primary copy alone (backup header zeroed) and
\* from the backup copy alone (primary header zeroed).
C22_GptRoundTrip ==
  [][(steps' # steps /\ result'.op = "partition" /\ result'.st = "ok"
        /\ held.type = "GPT")
       => /\ gpt_from_disk(media', sector_size) = [st |-> "ok", table |-> held]
          /\ gpt_from_disk(StoreAt(media', (media.size \div sector_size) - 1,
                                   1, Zeroes), sector_size)
               = [st |-> "ok", table |-> held]
          /\ gpt_from_disk(StoreAt(media', PRIMARY_HEADER_LBA, 1, Zeroes),
                           sector_size)
               = [st |-> "ok", table |-> held]]_vars

\* the MBR in sector 0 is the standard protective one: one partition, of
\* type 0xEE, from LBA 1 to the last sector of the disk
StandardProtective(M, lss) ==
  /\ mbr_from_disk(M, lss).st = "ok"
  /\ mbr_from_disk(M, lss).table.partitions
       = <<MbrEntry(1, (M.size \div lss) - 1, GPT_PROTECTIVE)>>

\* C23: when gpt.Table.from_disk loads a GPT, custom_mbr is absent exactly
\* when the MBR at LBA 0 is the standard protective MBR; every other MBR is
\* kept as custom_mbr, and a write of the loaded table puts it back into
\* sector 0 as it was.
C23_ProtectiveMbr ==
  [][(steps' # steps /\ result'.op = "from_disk" /\ result'.codec = "GPT"
        /\ result'.st = "ok")
       => /\ held'.custom_mbr = NoTable
               <=> StandardProtective(media, sector_size)
          /\ (~StandardProtective(media, sector_size)
                /\ gpt_write_to_disk(held', media, sector_size).st = "ok")
               => SectorAt(gpt_write_to_disk(held', media, sector_size).M, 0)
                    = SectorAt(media, 0)]_vars

\* the packed address the MBR format gives an LBA under the geometry of 255
\* heads and 63 sectors per track, and the sentinel (1023, 255, 63) packed
ChsBytes(lba) ==
  << (lba % 16065) \div 63,
     ((lba % 16065) % 63) + 1 + 64 * ((lba \div 16065) \div 256),
     (lba \div 16065) % 256 >>
OverflowBytes == <<255, 255, 255>>

\* C24: serializing an MBR partition entry succeeds, and its start LBA and
\* its end LBA are each encoded as the CHS address of the LBA under H=255,
\* S=63 when the LBA is at most 2^10 * (2^8 - 1) * (2^6 - 1) - 1, and as the
\* sentinel (1023, 255, 63) when it is larger.
C24_ChsFields ==
  result.op = "bytes"
    => /\ result.st = "ok"
       /\ result.bytes.start_chs
            = IF result.entry.start_lba <= 16450559
              THEN ChsBytes(result.entry.start_lba) ELSE OverflowBytes
       /\ result.bytes.end_chs
            = IF end_lba(result.entry) <= 16450559
              THEN ChsBytes(end_lba(result.entry)) ELSE OverflowBytes

\* C25: a datetime with a year in 1980..2107 and a resolution of 10 ms is
\* packed without error and unpacking the packed value gives the datetime
\* back; a datetime with a year outside 1980..2107 makes the packing raise.
C25_DosRoundTrip ==
  result.op = "pack_unpack"
    => IF result.dt.year \in 1980..2107
       THEN result.st = "ok" /\ result.unpacked = result.dt
       ELSE result.st = "ValueError"

\* a chain as the format wants it for the 8.3 entry edt: at most 20 entries,
\* every checksum that of the DOS name, the last-LFN bit on the first entry
\* and on no other, the numbers Len, Len - 1, ..., 1
WellFormed(edt, chain) ==
  /\ Len(chain) <= 20
  /\ \A i \in 1..Len(chain) :
       /\ chain[i].sum = edt.dos
       /\ chain[i].seq = (IF i = 1 THEN 64 ELSE 0) + (Len(chain) + 1 - i)

\* C26: every Entry that is constructed or yielded by a directory scan has a
\* well-formed VFAT chain (checksums of its 8.3 name, last-LFN bit and
\* highest number first, numbers descending by one to 1, at most 20
\* entries), and constructing an Entry from any other chain raises a
\* validation error.
C26_EntryChain ==
  /\ result.op = "Entry"
       => IF WellFormed(result.edt, result.vfat_entries)
          THEN result.st = "ok" ELSE result.st = "ValidationError"
  /\ result.op = "iter_entries"
       => \A i \in 1..Len(result.items) :
            result.items[i].t = "Entry"
              => WellFormed(result.items[i].edt, result.items[i].vfat_entries)

\* the index of the first end-of-directory record, Len + 1 without one
FirstEnd(recs) ==
  IF \E i \in 1..Len(recs) : recs[i].k = "end"
  THEN CHOOSE i \in 1..Len(recs) :
         recs[i].k = "end" /\ \A j \in 1..(i - 1) : recs[j].k # "end"
  ELSE Len(recs) + 1
\* the VFAT chain before record j: the longest run of VFAT records with a
\* number in 1..20 that ends right before j
IsVfat(rec) == rec.k = "vfat" /\ rec.seq % 32 \in 1..20
ChainBefore(recs, j) ==
  SubSeq(recs,
         CHOOSE s \in 1..j : /\ \A i \in s..(j - 1) : IsVfat(recs[i])
                             /\ (s = 1 \/ ~IsVfat(recs[s - 1])),
         j - 1)

\* C27: a scan with only_useful set yields Entry objects of records before
\* the first end-of-directory record only, and an 8.3 record before it whose
\* VFAT chain is broken (a wrong checksum, a gap in or a wrong start of the
\* sequence numbers) is yielded as exactly one Entry without VFAT entries.
C27_BrokenChain ==
  (result.op = "iter_entries" /\ result.only_useful)
    => /\ \A i \in 1..Len(result.items) :
            /\ result.items[i].t = "Entry"
            /\ \E j \in 1..(FirstEnd(result.recs) - 1) :
                 result.recs[j] = result.items[i].edt
       /\ \A j \in 1..(FirstEnd(result.recs) - 1) :
            (/\ result.recs[j].k = "edt"
             /\ ChainBefore(result.recs, j) # <<>>
             /\ ~WellFormed(result.recs[j], ChainBefore(result.recs, j)))
              => result.items = <<EntryItem(result.recs[j], <<>>)>>

\* some descriptor is open on path or on a path beneath it
OpenAtOrBeneath(path) ==
  \E fd \in DOMAIN fd_table : IsPrefix(path, fd_table[fd].path)

\* C28: between the calls, the node of every path that resolves is flagged
\* in_use exactly when some row of the fd table has that path or a path
\* beneath it (so a failing openfd flags nothing and a closefd clears no
\* flag that another descriptor needs).
C28_InUseIffOpen ==
  \A path \in Paths :
    FindNode(World, path, "none").st = "ok"
      => (NodeInUse(path) <=> OpenAtOrBeneath(path))

\* C29: on a writable volume, mkdir(p) and openfd(p, O_CREAT) for writing
\* with the parent of p an existing regular file fail with ENOTDIR or ENOENT and
\* leave the volume (the file's data, size, cluster chain and directory
\* entry) as it was.
C29_FileParent ==
  [][(/\ Called
      /\ writable
      /\ \/ result'.op = "mkdir"
         \/ /\ result'.op = "openfd"
            /\ result'.flags.creat
            /\ result'.flags.acc \in {"w", "rw"}
      /\ Len(result'.path) > 1
      /\ IsFile(World, Parent(result'.path)))
       => (/\ result'.st \in {"ENOTDIR", "ENOENT"}
           /\ fat' = fat /\ data' = data /\ rootdir' = rootdir)]_vars

\* the clusters a stream of chain `chain` needs more to hold `stop` cells
ClustersNeeded(chain, stop) ==
  IF stop = 0 \/ ((stop - 1) \div ClusterCells) + 1 <= Len(chain) THEN 0
  ELSE ((stop - 1) \div ClusterCells) + 1 - Len(chain)
\* cell i (from 0) of stream S on the volume W
CellAt(W, S, i) == W.data[S.chain[(i \div ClusterCells) + 1]][(i % ClusterCells) + 1]

\* C30: a write of a non-empty buffer b at a position p, whatever the
\* alignment of p and of p + len(b), succeeds when the volume has the free
\* clusters it needs; afterwards the cells p .. p + len(b) - 1 of the stream
\* are b, every cell that existed before outside that range keeps its
\* value, and no unit of the stream outside the covered ones has changed.
C30_WriteAnyAlignment ==
  [][(/\ result'.op = "seek_write"
      /\ steps' # steps
      /\ ClustersNeeded(streams[1].chain, result'.pos + Len(result'.b))
           <= free_clusters(fat))
       => (/\ result'.st = "ok"
           /\ \A i \in 0..(Len(result'.b) - 1) :
                CellAt(World', streams'[1], result'.pos + i) = result'.b[i + 1]
           /\ \A i \in 0..(streams[1].size - 1) :
                (i < result'.pos \/ i >= result'.pos + Len(result'.b))
                  => CellAt(World', streams'[1], i) = CellAt(World, streams[1], i)
           /\ \A u \in 0..(Len(streams[1].chain) - 1) :
                (u < result'.pos \div ClusterCells
                 \/ u > (result'.pos + Len(result'.b) - 1) \div ClusterCells)
                  => data'[streams[1].chain[u + 1]]
                       = data[streams[1].chain[u + 1]])]_vars

\* the sector (from 0) that holds byte i (from 1) of the volume
SectorOf(i) == (i - 1) \div SectorBytes

\* C31: whatever the FAT type and the entry, a step of the Fat changes only
\* bytes in sectors of the FAT region, and in each FAT copy only sectors at
\* the offset of the buffer that is flushed (the two sectors from that
\* offset on for FAT12): no sector behind the FATs and no sector at another
\* offset of a copy is modified.
C31_FlushFrame ==
  [][\A i \in 1..Len(disk) :
       disk'[i] # disk[i]
         => /\ SectorOf(i) >= ReservedSectors
            /\ SectorOf(i) < ReservedSectors + FatCopies * FatSectors
            /\ ((SectorOf(i) - ReservedSectors) % FatSectors) - buffer.offset
                 \in {0, IF fat_type = 12 THEN 1 ELSE 0}]_vars

\* the entries a scan of the root directory finds on the volume
RootOnDisk == UsefulEntries(Scandir(World, NoEntry).items)
\* the consumer's next() runs a scan of an uncached directory to its end
ScanExhausted ==
  /\ gen[Consumer].st # "stop"
  /\ gen'[Consumer].st = "stop"
  /\ gen'[Consumer].src = "scan"

\* C32: when a scandir iteration that began on a root directory whose
\* children were not cached is exhausted, whatever mkdir, openfd, unlink,
\* rename or replace calls ran between its yields, the cached children are
\* the nodes of the entries now on the volume, and a children list cached in
\* between, with its in_use flags and cached subdirectories, is left as it
\* was.
C32_ScanKeepsCache ==
  [][ScanExhausted
       => /\ cache' # NotParsed
          /\ NodeEntries(cache') = RootOnDisk'
          /\ (cache # NotParsed => cache' = cache)]_vars

\* the last call was a rename or replace of a directory to a path below it
MovedBeneathItself ==
  /\ Called
  /\ result'.op \in {"rename", "replace"}
  /\ result'.path # result'.dst
  /\ IsPrefix(result'.path, result'.dst)
  /\ FindNode(World, result'.path, "none").st = "ok"
  /\ IsDirectory(World, result'.path)

\* C33: a rename or replace of a directory to a destination inside its own
\* subtree is rejected: it does not return normally.
C33_NoMoveIntoSubtree ==
  [][MovedBeneathItself => result'.st # "ok"]_vars

\* C34: every path stored in a row of the fd table resolves to a regular
\* file, and a closefd on a descriptor of the table does not fail with
\* "no such file" and removes the row.
C34_FdPathsResolve ==
  /\ \A fd \in DOMAIN fd_table : IsFile(World, fd_table[fd].path)
  /\ result.op = "closefd"
       => result.st # "ENOENT" /\ result.fd \notin DOMAIN fd_table

\* slots of a table before the slots of entry e, and before its end mark
SlotsBefore(cells, e) ==
  CHOOSE i \in 0..Len(cells) :
    SubSeq(cells, i + 1, i + TotalEntries(e)) = EntryBytes(e)
SlotsUsed(cells) ==
  IF \E i \in 1..Len(cells) : cells[i] = ZeroCell
    THEN (CHOOSE i \in 1..Len(cells) :
            cells[i] = ZeroCell /\ \A j \in 1..(i - 1) : cells[j] # ZeroCell) - 1
    ELSE Len(cells)

\* the table after old (m slots from slot s) was replaced by new (n slots)
\* in table `cells` whose end mark is at slot e, slots counted from 0
Transformed(cells, s, m, e, new) ==
  Bind(TotalEntries(new), LAMBDA n :
    [i \in 1..Len(cells) |->
       IF n <= m
         THEN IF s < i /\ i <= s + m - n THEN DelCell
              ELSE IF s + m - n < i /\ i <= s + m
                THEN EntryBytes(new)[i - (s + m - n)]
              ELSE cells[i]
         ELSE IF s < i /\ i <= s + m THEN DelCell
              ELSE IF e < i /\ i <= e + n THEN EntryBytes(new)[i - e]
              ELSE cells[i]])

\* C35: a transformation with an old and a new entry, the table having room
\* for the new one, succeeds and leaves the table as follows.  If the new
\* entry needs no more slots than the old one, the leading surplus slots of
\* the old entry are marked deleted and its remaining slots hold the new
\* entry; if it needs more, all slots of the old entry are marked deleted
\* and the new entry stands at the first end-of-directory position.  Every
\* other slot is unchanged.
C35_TransformFrame ==
  (/\ result.op = "transform"
   /\ result.old # NoEntry
   /\ result.new # NoEntry
   /\ \/ TotalEntries(result.new) <= TotalEntries(result.old)
      \/ SlotsUsed(result.before) + TotalEntries(result.new) <= RootSize)
    => /\ result.st = "ok"
       /\ rootdir = Transformed(result.before, SlotsBefore(result.before, result.old),
                                TotalEntries(result.old), SlotsUsed(result.before),
                                result.new)

\* the empty slots of the table from cluster 2 on
EmptySlots == {k \in DOMAIN fat : k >= 2 /\ fat[k] = CLUSTER_EMPTY}

\* C36: next_free_clusters(count) yields, in ascending order, the count
\* lowest empty slots from cluster 2 on and does not raise when the table
\* has count empty slots; it raises FileSystemLimit when the table has fewer.
C36_NextFree ==
  result.op = "next_free_clusters"
    => IF Cardinality(EmptySlots) >= result.count
         THEN /\ result.st = "ok"
              /\ Len(result.clusters) = result.count
              /\ \A i \in 1..Len(result.clusters) :
                   /\ result.clusters[i] \in EmptySlots
                   /\ Cardinality({k \in EmptySlots : k < result.clusters[i]}) = i - 1
         ELSE result.st = "FileSystemLimit"

\* the chain of the one stream before and after a step
ChainWas == streams[1].chain
ChainNow == streams'[1].chain

\* C37: after every truncate or write of a DataIO stream, the FAT links from
\* the stream's first cluster visit exactly the stream's chain, in order, and
\* the last cluster of the chain is marked end-of-chain.  After a truncate
\* that shrinks the stream the chain is the first ceil(size / cluster size)
\* clusters of the old chain and every cluster cut off is marked empty.
\* After a truncate that grows the stream the old chain is kept and every
\* cluster appended to it is filled with zeroes.
C37_ChainAfterAllocateFree ==
  [][/\ get_chain(fat', StartCluster(streams'[1])) = [st |-> "ok", chain |-> ChainNow]
     /\ ChainNow # <<>> => fat'[ChainNow[Len(ChainNow)]] = CLUSTER_EOC_12
     /\ (result'.op = "truncate" /\ result'.st = "ok" /\ result'.size < streams[1].size)
          => /\ Len(ChainNow) = (result'.size + ClusterCells - 1) \div ClusterCells
             /\ ChainNow = SubSeq(ChainWas, 1, Len(ChainNow))
             /\ \A i \in (Len(ChainNow) + 1)..Len(ChainWas) :
                  fat'[ChainWas[i]] = CLUSTER_EMPTY
     /\ (result'.op = "truncate" /\ result'.st = "ok" /\ result'.size > streams[1].size)
          => /\ ChainWas = SubSeq(ChainNow, 1, Len(ChainWas))
             /\ \A i \in (Len(ChainWas) + 1)..Len(ChainNow) :
                  data'[ChainNow[i]] = ZeroUnit]_vars

\* a truncate cut two clusters that held written data off a chain and
\* left one
C37_Witness ==
  /\ result.op = "truncate"
  /\ result.st = "ok"
  /\ result.size < result.was
  /\ result.was > 2 * ClusterCells
  /\ Len(streams[1].chain) = 1
  /\ \E c \in DOMAIN data : fat[c] = CLUSTER_EMPTY /\ data[c] # ZeroUnit

\* C38: when a truncate grows a stream, every cell between the old size and
\* the new size reads back as zero, whatever writes and truncates came
\* before.
C38_GrowthReadsZero ==
  [][(result'.op = "truncate" /\ result'.st = "ok" /\ result'.size > streams[1].size)
       => \A p \in streams[1].size..(result'.size - 1) :
            (Read(World, streams[1], p, 1).b = <<ZeroCell>>)']_vars

\* the volume as a freshly loaded FileSystem sees it
OnDisk == [World EXCEPT !.cache = NotParsed]
\* the paths that resolve on the volume, and whether two of them name
\* different directory entries (a long name and its alias name one entry)
LivePaths == {p \in Paths : FindNode(OnDisk, p, "none").st = "ok"}
OtherEntry(p, q) ==
  \/ Parent(p) # Parent(q)
  \/ FindNode(OnDisk, p, "none").node.entry.dos
       # FindNode(OnDisk, q, "none").node.entry.dos
\* the clusters of the open stream with identity id
StreamClusters(id) == {streams[id].chain[i] : i \in 1..Len(streams[id].chain)}
OpenStreams == {fd_table[fd].stream : fd \in DOMAIN fd_table}

\* C39: no data cluster lies on the chains of two different directory
\* entries or of two open streams, and no cluster on the chain of a
\* directory entry or of an open stream is marked empty in the FAT.
C39_ClustersOwnedOnce ==
  /\ \A p, q \in LivePaths :
       OtherEntry(p, q) => NodeChain(OnDisk, p) \cap NodeChain(OnDisk, q) = {}
  /\ \A i, j \in OpenStreams :
       i # j => StreamClusters(i) \cap StreamClusters(j) = {}
  /\ \A p \in LivePaths : \A c \in NodeChain(OnDisk, p) : fat[c] # CLUSTER_EMPTY
  /\ \A i \in OpenStreams : \A c \in StreamClusters(i) : fat[c] # CLUSTER_EMPTY

\* path names a directory, as the FileSystem object sees it
NamesDirectory(path) ==
  path = <<>> \/ (FindNode(World, path, "none").st = "ok" /\ IsDirectory(World, path))

\* C40: after any chdir, rmdir, rename and replace calls the stored current
\* working directory names a directory, and a chdir to a directory succeeds
\* and stores its path.
C40_CwdLive ==
  /\ NamesDirectory(cwd)
  /\ (result.op = "chdir" /\ NamesDirectory(result.path))
       => result.st = "ok" /\ cwd = result.path
====
